---- MODULE Spec2Model ----
(***************************************************************************)
(* fx-insight-bot: the risk manager (services/risk_manager.py) and the     *)
(* trade executor (services/trade_executor.py) with the gateway calls it   *)
(* makes (services/gmo_client.py) and the signal decision it consumes      *)
(* (services/rule_engine.py).                                              *)
(*                                                                         *)
(* Money is counted in whole units; ratios are compared by cross           *)
(* multiplication, which is what the float comparisons of the code decide  *)
(* on these values.                                                        *)
(***************************************************************************)
EXTENDS Integers, Sequences, FiniteSets, TLC

\* ------------------------------------------------------------------ bounds

\* RiskConfig limits are drawn from 1..MaxLimit at construction.
MaxLimit == 2
\* record_trade_result is called at most MaxCalls times per day, which is one
\* call past the largest limit; a losing streak is followed up to MaxCalls.
MaxCalls == MaxLimit + 1
\* The clock shows the days 1..NumDays.
NumDays == 2
\* A losing result loses 1..MaxLossAmount units.
MaxLossAmount == 1
\* balance and margin of the account assets are in 0..MaxAmount.
MaxAmount == 1

\* get_klines_range fetches the bars of MaxDays days.
MaxDays == 3

\* The open positions of the broker's book.
MaxOpen == 2

\* The entries of a feed.
MaxEntries == 2

\* The items of a response of the news analysis.
MaxItems == 2

\* The ticks of 1/6 s the client's clock is followed for.
MaxTicks == 14

\* Where the risk level is followed, max_daily_loss is LevelLimit and a
\* losing result loses up to LevelLimit - 1 units.
LevelLimit == 5

\* TradeConfig.symbols lists at most MaxSymbols symbols.
MaxSymbols == 2

\* GMOCoinClient.max_retries is in 0..MaxRetries.
MaxRetries == 3
\* GMOCoinClient.retry_delay is in 1..MaxDelay seconds.
MaxDelay == 2

\* The news query returns at most MaxNews documents.
MaxNews == 2

\* RiskConfig.stop_loss_pips and take_profit_pips are in 1..MaxPips.
MaxPips == 2
\* RiskConfig.max_position_hours is in 1..MaxHours.
MaxHours == 2

\* ------------------------------------------------------- program constants

\* RiskConfig.min_margin_ratio (percent)
min_margin_ratio == 100

\* TradeConfig defaults
default_size == 1
max_positions_per_symbol == 3
max_total_positions == 5

Symbols == {"USD_JPY", "EUR_JPY"}
Sides == {"BUY", "SELL"}

\* ------------------------------------------------------------------- state

VARIABLES
    riskConfig,          \* RiskManager.config
    daily_loss,          \* RiskManager._daily_loss
    daily_trades,        \* RiskManager._daily_trades
    consecutive_losses,  \* RiskManager._consecutive_losses
    last_reset_date,     \* RiskManager._last_reset_date: {} is None, else {day}
    today,               \* datetime.now().date()
    call,                \* the last RiskManager call: the counters before it and its return value
    recordedToday,       \* the results record_trade_result received on `today`
    phase,               \* where the last record_trade_result call stands in a streak
    symbols,             \* TradeExecutor.config.symbols
    min_confidence,      \* TradeExecutor.config.min_confidence, in hundredths
    dry_run,             \* GMOCoinClient.dry_run
    db,                  \* TradeExecutor.db is set
    pc,                  \* execute_signals: "idle", "loop", "done", or "raised" an exception
    i,                   \* execute_signals: index of the symbol the loop is at
    results,             \* execute_signals: results
    orders,              \* the place_order calls the gateway received in this cycle
    saved,               \* the symbols whose result this cycle wrote to the trades collection
    last,                \* the latest turn of the loop: its signal and the gateway calls it made
    credentials,         \* GMOCoinClient._has_private_credentials()
    max_retries,         \* GMOCoinClient.max_retries
    retry_delay,         \* GMOCoinClient.retry_delay
    method,              \* the GMOCoinClient method called last, with its order_id argument
    request,             \* _request: attempt, HTTP requests sent, sleeps between attempts, exchanges
    outcome,             \* what the method did: "" (at work), "returned", or the exception raised
    response,            \* the response the method returned
    open,                \* the broker's open positions: their number for each symbol
    technical,           \* _integrate_signals: technical (trend, momentum, rsi flags)
    news_summary,        \* _integrate_signals: news_summary (count; averages in hundredths)
    fetched,             \* generate_signal: what the news query did
    decision,            \* _integrate_signals: its scores and what it returned
    stop_loss_pips,      \* RiskManager.config.stop_loss_pips
    take_profit_pips,    \* RiskManager.config.take_profit_pips
    max_position_hours,  \* RiskManager.config.max_position_hours
    position,            \* should_close_position: position, with its age in hours
    current_price,       \* should_close_position: current_price, in units of 0.0001
    closing,             \* should_close_position: what it returned
    klines,              \* get_indicators: what each day's get_klines does, and the closes' shape
    rsi_data,            \* _calculate_rsi's result, or the argument of _determine_momentum
    macd_data,           \* _calculate_macd's result, or the argument of _determine_momentum
    indicators,          \* what get_indicators, or _determine_momentum alone, did
    composite,           \* place_ifdoco_order / place_ifd_order: the arguments and the orders returned
    limiter,             \* the client's clock, its two rate-limit stamps and its last two attempts
    analysis,            \* analyze_news: the items of the parsed response and what it returned
    collector,           \* the NewsCollector's seen sets, what it returned and its last operation
    closer               \* close_positions_for_symbol: the broker's book, the requests and the results

riskVars == <<riskConfig, daily_loss, daily_trades, consecutive_losses,
              last_reset_date, today, call, recordedToday, phase>>

execVars == <<symbols, min_confidence, dry_run, db, pc, i, results, orders, saved, last>>

gatewayVars == <<credentials, max_retries, retry_delay, method, request, outcome, response>>

brokerVars == <<open>>

signalVars == <<technical, news_summary, fetched, decision>>

monitorVars ==
    <<stop_loss_pips, take_profit_pips, max_position_hours, position, current_price, closing>>

analyzerVars == <<klines, rsi_data, macd_data, indicators>>

\* The state of the calls that are followed one at a time.
serviceVars == <<composite, limiter, analysis, collector, closer>>

\* What the RiskManager's methods leave alone, the TradeExecutor's and the
\* GMOCoinClient's.
outsideRisk == <<execVars, gatewayVars, brokerVars, signalVars, monitorVars, analyzerVars, serviceVars>>
outsideExec == <<riskVars, gatewayVars, brokerVars, signalVars, monitorVars, analyzerVars, serviceVars>>
outsideGateway ==
    <<riskVars, symbols, min_confidence, db, pc, i, results, orders, saved, last,
      brokerVars, signalVars, monitorVars, analyzerVars, serviceVars>>
outsideSignal == <<riskVars, execVars, gatewayVars, brokerVars, monitorVars, analyzerVars, serviceVars>>
outsideMonitor ==
    <<riskVars, execVars, gatewayVars, brokerVars, signalVars, analyzerVars, serviceVars>>
outsideAnalyzer ==
    <<riskVars, execVars, gatewayVars, brokerVars, signalVars, monitorVars, serviceVars>>

\* What those calls leave alone.
coreVars ==
    <<riskVars, execVars, gatewayVars, brokerVars, signalVars, monitorVars, analyzerVars>>

vars == <<coreVars, serviceVars>>

\* ------------------------------------------------------------- RiskManager

RiskConfigs ==
    [max_daily_loss : 1..MaxLimit,
     max_daily_trades : 1..MaxLimit,
     max_consecutive_losses : 1..MaxLimit]

\* account_assets: None, {}, a dict whose fields float() cannot read, or a
\* dict with numeric balance and margin
AccountAssets ==
    {[kind |-> k, balance |-> 0, margin |-> 0] : k \in {"none", "empty", "bad"}}
    \cup [kind : {"dict"}, balance : 0..MaxAmount, margin : 0..MaxAmount]

NoAssets == [kind |-> "none", balance |-> 0, margin |-> 0]

ProfitLosses == (0 - MaxLossAmount)..1

RiskCheckResult(can_trade, reason, risk_level, details) ==
    [can_trade |-> can_trade, reason |-> reason,
     risk_level |-> risk_level, details |-> details]

NoResult == RiskCheckResult(FALSE, "", "", "")

\* x / limit >= num / den, for limit > 0
RatioAtLeast(x, limit, num, den) == x * den >= num * limit

\* _calculate_risk_level as it would be if a ratio of exactly 0.8 were not
\* yet HIGH.
calculate_risk_level_strict(cfg, dl, dt, cl) ==
    LET high == \/ dl * 10 > 8 * cfg.max_daily_loss
                \/ dt * 10 > 8 * cfg.max_daily_trades
                \/ cl * 10 > 8 * cfg.max_consecutive_losses
        medium == \/ RatioAtLeast(dl, cfg.max_daily_loss, 5, 10)
                  \/ RatioAtLeast(dt, cfg.max_daily_trades, 5, 10)
                  \/ RatioAtLeast(cl, cfg.max_consecutive_losses, 5, 10)
    IN  IF high THEN "HIGH" ELSE IF medium THEN "MEDIUM" ELSE "LOW"

calculate_risk_level(cfg, dl, dt, cl) ==
    LET high == \/ RatioAtLeast(dl, cfg.max_daily_loss, 8, 10)
                \/ RatioAtLeast(dt, cfg.max_daily_trades, 8, 10)
                \/ RatioAtLeast(cl, cfg.max_consecutive_losses, 8, 10)
        medium == \/ RatioAtLeast(dl, cfg.max_daily_loss, 5, 10)
                  \/ RatioAtLeast(dt, cfg.max_daily_trades, 5, 10)
                  \/ RatioAtLeast(cl, cfg.max_consecutive_losses, 5, 10)
    IN  IF high THEN "HIGH" ELSE IF medium THEN "MEDIUM" ELSE "LOW"

\* _check_margin_ratio as it would be if unreadable fields rejected the trade.
check_margin_ratio_fails_closed(assets) ==
    IF assets.kind = "bad"
    THEN RiskCheckResult(FALSE, "Margin check skipped", "CRITICAL", "none")
    ELSE LET tooLow == /\ assets.margin # 0
                       /\ assets.balance * 100 < min_margin_ratio * assets.margin
         IN  IF (assets.margin = 0 /\ 100 < min_margin_ratio) \/ tooLow
             THEN RiskCheckResult(FALSE, "Margin ratio too low", "CRITICAL", "margin")
             ELSE RiskCheckResult(TRUE, "Margin ratio OK", "LOW", "margin")

\* _check_margin_ratio as it would be if a ratio equal to min_margin_ratio
\* were too low.
check_margin_ratio_inclusive(assets) ==
    IF assets.kind = "bad"
    THEN RiskCheckResult(TRUE, "Margin check skipped", "MEDIUM", "none")
    ELSE LET tooLow == /\ assets.margin # 0
                       /\ assets.balance * 100 <= min_margin_ratio * assets.margin
         IN  IF (assets.margin = 0 /\ 100 <= min_margin_ratio) \/ tooLow
             THEN RiskCheckResult(FALSE, "Margin ratio too low", "CRITICAL", "margin")
             ELSE RiskCheckResult(TRUE, "Margin ratio OK", "LOW", "margin")

check_margin_ratio(assets) ==
    IF assets.kind = "bad"
    THEN RiskCheckResult(TRUE, "Margin check skipped", "MEDIUM", "none")
    ELSE LET tooLow == /\ assets.margin # 0
                       /\ assets.balance * 100 < min_margin_ratio * assets.margin
         IN  IF (assets.margin = 0 /\ 100 < min_margin_ratio) \/ tooLow
             THEN RiskCheckResult(FALSE, "Margin ratio too low", "CRITICAL", "margin")
             ELSE RiskCheckResult(TRUE, "Margin ratio OK", "LOW", "margin")

\* _reset_daily_stats_if_needed as it would be if it kept the trade count.
reset_keeps_trades(dl, dt, lrd, now) ==
    IF lrd = {} \/ lrd # {now}
    THEN [daily_loss |-> 0, daily_trades |-> dt, last_reset_date |-> {now}]
    ELSE [daily_loss |-> dl, daily_trades |-> dt, last_reset_date |-> lrd]

\* _reset_daily_stats_if_needed as it would be if it reset only on a date
\* change, and not while no date is recorded yet.
reset_unless_none(dl, dt, lrd, now) ==
    IF lrd # {} /\ lrd # {now}
    THEN [daily_loss |-> 0, daily_trades |-> 0, last_reset_date |-> {now}]
    ELSE [daily_loss |-> dl, daily_trades |-> dt, last_reset_date |-> lrd]

\* The state (daily_loss, daily_trades, last_reset_date) that
\* _reset_daily_stats_if_needed leaves.
reset_daily_stats_if_needed(dl, dt, lrd, now) ==
    IF lrd = {} \/ lrd # {now}
    THEN [daily_loss |-> 0, daily_trades |-> 0, last_reset_date |-> {now}]
    ELSE [daily_loss |-> dl, daily_trades |-> dt, last_reset_date |-> lrd]

\* check_trade_allowed as it would be with the trade-count check first.
CheckResult_TradesFirst(cfg, dl, dt, cl, assets) ==
    IF dt >= cfg.max_daily_trades
    THEN RiskCheckResult(FALSE, "Daily trade limit reached", "HIGH", "counters")
    ELSE IF cl >= cfg.max_consecutive_losses
    THEN RiskCheckResult(FALSE, "Consecutive losses limit reached", "CRITICAL", "counters")
    ELSE IF dl >= cfg.max_daily_loss
    THEN RiskCheckResult(FALSE, "Daily loss limit reached", "CRITICAL", "counters")
    ELSE IF assets.kind \in {"dict", "bad"} /\ ~check_margin_ratio(assets).can_trade
    THEN check_margin_ratio(assets)
    ELSE RiskCheckResult(TRUE, "Trade allowed",
                         calculate_risk_level(cfg, dl, dt, cl), "counters")

\* check_trade_allowed as it would be with a strict daily-loss limit.
CheckResult_StrictLoss(cfg, dl, dt, cl, assets) ==
    IF cl >= cfg.max_consecutive_losses
    THEN RiskCheckResult(FALSE, "Consecutive losses limit reached", "CRITICAL", "counters")
    ELSE IF dl > cfg.max_daily_loss
    THEN RiskCheckResult(FALSE, "Daily loss limit reached", "CRITICAL", "counters")
    ELSE IF dt >= cfg.max_daily_trades
    THEN RiskCheckResult(FALSE, "Daily trade limit reached", "HIGH", "counters")
    ELSE IF assets.kind \in {"dict", "bad"} /\ ~check_margin_ratio(assets).can_trade
    THEN check_margin_ratio(assets)
    ELSE RiskCheckResult(TRUE, "Trade allowed",
                         calculate_risk_level(cfg, dl, dt, cl), "counters")

\* The return value of check_trade_allowed on the counters left by the rollover.
CheckResult(cfg, dl, dt, cl, assets) ==
    IF cl >= cfg.max_consecutive_losses
    THEN RiskCheckResult(FALSE, "Consecutive losses limit reached", "CRITICAL", "counters")
    ELSE IF dl >= cfg.max_daily_loss
    THEN RiskCheckResult(FALSE, "Daily loss limit reached", "CRITICAL", "counters")
    ELSE IF dt >= cfg.max_daily_trades
    THEN RiskCheckResult(FALSE, "Daily trade limit reached", "HIGH", "counters")
    ELSE IF assets.kind \in {"dict", "bad"} /\ ~check_margin_ratio(assets).can_trade
    THEN check_margin_ratio(assets)
    ELSE RiskCheckResult(TRUE, "Trade allowed",
                         calculate_risk_level(cfg, dl, dt, cl), "counters")

\* The counters as a call finds them.
Snapshot ==
    [daily_loss |-> daily_loss, daily_trades |-> daily_trades,
     consecutive_losses |-> consecutive_losses]

\* The record of a call: assets is the kind of account_assets it was given,
\* rollover whether it logged "Resetting daily stats".
Call(op, assets, rollover, result) ==
    [op |-> op, assets |-> assets, before |-> Snapshot, rollover |-> rollover,
     result |-> result]

\* check_trade_allowed as it would be if the daily reset cleared the streak too.
check_trade_allowed_clears_streak(symbol, side, size, assets) ==
    LET r == reset_daily_stats_if_needed(daily_loss, daily_trades, last_reset_date, today)
        streak == IF r.last_reset_date # last_reset_date THEN 0 ELSE consecutive_losses
    IN  /\ daily_loss' = r.daily_loss
        /\ daily_trades' = r.daily_trades
        /\ last_reset_date' = r.last_reset_date
        /\ consecutive_losses' = streak
        /\ call' = Call("check_trade_allowed", assets.kind,
                        r.last_reset_date # last_reset_date,
                        CheckResult(riskConfig, r.daily_loss, r.daily_trades,
                                    streak, assets))
        /\ UNCHANGED <<riskConfig, today, recordedToday, phase>>
        /\ UNCHANGED outsideRisk

check_trade_allowed(symbol, side, size, assets) ==
    LET r == reset_daily_stats_if_needed(daily_loss, daily_trades, last_reset_date, today)
    IN  /\ daily_loss' = r.daily_loss
        /\ daily_trades' = r.daily_trades
        /\ last_reset_date' = r.last_reset_date
        /\ call' = Call("check_trade_allowed", assets.kind,
                        r.last_reset_date # last_reset_date,
                        CheckResult(riskConfig, r.daily_loss, r.daily_trades,
                                    consecutive_losses, assets))
        /\ UNCHANGED <<riskConfig, consecutive_losses, today, recordedToday, phase>>
        /\ UNCHANGED outsideRisk

\* The ghost part of a record_trade_result step.
RecordGhost(profit_loss) ==
    /\ call' = Call("record_trade_result", "none", FALSE, NoResult)
    /\ recordedToday' =
           [count |-> recordedToday.count + 1,
            loss |-> recordedToday.loss + (IF profit_loss < 0 THEN 0 - profit_loss ELSE 0)]
    /\ phase' =
           IF profit_loss < 0
           THEN (IF phase = "won" THEN "lost" ELSE "losing")
           ELSE (IF consecutive_losses = riskConfig.max_consecutive_losses - 1
                 THEN "won" ELSE "losing")

\* record_trade_result as it would be if a result of exactly 0 counted as a loss.
record_zero_is_loss(profit_loss, success) ==
    /\ daily_trades < MaxCalls
    /\ recordedToday.count < MaxCalls
    /\ consecutive_losses < MaxCalls
    /\ daily_trades' = daily_trades + 1
    /\ IF profit_loss <= 0
       THEN /\ daily_loss' = daily_loss + (0 - profit_loss)
            /\ consecutive_losses' = consecutive_losses + 1
       ELSE /\ daily_loss' = daily_loss
            /\ consecutive_losses' = 0
    /\ RecordGhost(profit_loss)
    /\ UNCHANGED <<riskConfig, last_reset_date, today>>
    /\ UNCHANGED outsideRisk

\* record_trade_result as it would be if a failed trade counted as a loss.
record_failure_is_loss(profit_loss, success) ==
    /\ daily_trades < MaxCalls
    /\ recordedToday.count < MaxCalls
    /\ consecutive_losses < MaxCalls
    /\ daily_trades' = daily_trades + 1
    /\ IF profit_loss < 0 \/ ~success
       THEN /\ daily_loss' = daily_loss + (IF profit_loss < 0 THEN 0 - profit_loss ELSE 0)
            /\ consecutive_losses' = consecutive_losses + 1
       ELSE /\ daily_loss' = daily_loss
            /\ consecutive_losses' = 0
    /\ RecordGhost(profit_loss)
    /\ UNCHANGED <<riskConfig, last_reset_date, today>>
    /\ UNCHANGED outsideRisk

record_trade_result(profit_loss, success) ==
    /\ daily_trades < MaxCalls
    /\ recordedToday.count < MaxCalls
    /\ profit_loss < 0 => consecutive_losses < MaxCalls
    /\ daily_trades' = daily_trades + 1
    /\ IF profit_loss < 0
       THEN /\ daily_loss' = daily_loss + (0 - profit_loss)
            /\ consecutive_losses' = consecutive_losses + 1
       ELSE /\ daily_loss' = daily_loss
            /\ consecutive_losses' = 0
    /\ RecordGhost(profit_loss)
    /\ UNCHANGED <<riskConfig, last_reset_date, today>>
    /\ UNCHANGED outsideRisk

get_risk_summary ==
    LET r == reset_daily_stats_if_needed(daily_loss, daily_trades, last_reset_date, today)
    IN  /\ daily_loss' = r.daily_loss
        /\ daily_trades' = r.daily_trades
        /\ last_reset_date' = r.last_reset_date
        /\ call' = Call("get_risk_summary", "none",
                        r.last_reset_date # last_reset_date,
                        RiskCheckResult(FALSE, "summary",
                            calculate_risk_level(riskConfig, r.daily_loss,
                                                 r.daily_trades, consecutive_losses),
                            "summary"))
        /\ UNCHANGED <<riskConfig, consecutive_losses, today, recordedToday, phase>>
        /\ UNCHANGED outsideRisk

\* The calendar date changes.
AdvanceDay ==
    /\ today < NumDays
    /\ today' = today + 1
    /\ recordedToday' = [count |-> 0, loss |-> 0]
    /\ UNCHANGED <<riskConfig, daily_loss, daily_trades, consecutive_losses,
                   last_reset_date, call, phase>>
    /\ UNCHANGED outsideRisk

RiskInit ==
    /\ riskConfig \in RiskConfigs
    /\ daily_loss = 0
    /\ daily_trades = 0
    /\ consecutive_losses = 0
    /\ last_reset_date = {}
    /\ today = 1
    /\ call = [op |-> "__init__", assets |-> "none",
               before |-> [daily_loss |-> 0, daily_trades |-> 0,
                           consecutive_losses |-> 0],
               rollover |-> FALSE, result |-> NoResult]
    /\ recordedToday = [count |-> 0, loss |-> 0]
    /\ phase = "losing"

CheckStep ==
    \E a \in AccountAssets : check_trade_allowed("USD_JPY", "BUY", 1, a)

RecordStep ==
    \E pl \in ProfitLosses, ok \in BOOLEAN : record_trade_result(pl, ok)

\* The configurations on which the risk level is followed: a daily loss
\* limit of LevelLimit, the other limits small or LevelLimit.
LevelConfigs ==
    [max_daily_loss : {LevelLimit},
     max_daily_trades : {MaxLimit, LevelLimit},
     max_consecutive_losses : {MaxLimit, LevelLimit}]

\* record_trade_result on a result that loses up to LevelLimit - 1 units,
\* breaks even or wins.
RecordLevelStep ==
    \E pl \in (1 - LevelLimit)..1 : record_trade_result(pl, pl >= 0)

RiskLevelNext ==
    \/ CheckStep
    \/ RecordLevelStep

RiskNext ==
    \/ CheckStep
    \/ RecordStep
    \/ get_risk_summary
    \/ AdvanceDay

\* ----------------------------------------------------------- TradeExecutor

\* The final decision as it would be if a sell took its confidence from the
\* buy score.
integrate_signals_buy_confidence(buy_score, sell_score) ==
    IF buy_score >= 4 /\ sell_score <= 1
    THEN [signal |-> "buy",
          confidence |-> IF 30 + 15 * buy_score < 100 THEN 30 + 15 * buy_score ELSE 100]
    ELSE IF sell_score >= 4 /\ buy_score <= 1
    THEN [signal |-> "sell",
          confidence |-> IF 30 + 15 * buy_score < 100 THEN 30 + 15 * buy_score ELSE 100]
    ELSE [signal |-> "hold", confidence |-> 50]

\* The final decision as it would be if the other side's score could be 2.
integrate_signals_ceiling_two(buy_score, sell_score) ==
    IF buy_score >= 4 /\ sell_score <= 2
    THEN [signal |-> "buy",
          confidence |-> IF 30 + 15 * buy_score < 100 THEN 30 + 15 * buy_score ELSE 100]
    ELSE IF sell_score >= 4 /\ buy_score <= 2
    THEN [signal |-> "sell",
          confidence |-> IF 30 + 15 * sell_score < 100 THEN 30 + 15 * sell_score ELSE 100]
    ELSE [signal |-> "hold", confidence |-> 50]

\* The final decision as it would be if a buy score of 3 were enough.
integrate_signals_from_three(buy_score, sell_score) ==
    IF buy_score >= 3 /\ sell_score <= 1
    THEN [signal |-> "buy",
          confidence |-> IF 30 + 15 * buy_score < 100 THEN 30 + 15 * buy_score ELSE 100]
    ELSE IF sell_score >= 4 /\ buy_score <= 1
    THEN [signal |-> "sell",
          confidence |-> IF 30 + 15 * sell_score < 100 THEN 30 + 15 * sell_score ELSE 100]
    ELSE [signal |-> "hold", confidence |-> 50]

\* The final decision as it would be if a hold had a confidence of 0.7.
integrate_signals_hold_seventy(buy_score, sell_score) ==
    IF buy_score >= 4 /\ sell_score <= 1
    THEN [signal |-> "buy",
          confidence |-> IF 30 + 15 * buy_score < 100 THEN 30 + 15 * buy_score ELSE 100]
    ELSE IF sell_score >= 4 /\ buy_score <= 1
    THEN [signal |-> "sell",
          confidence |-> IF 30 + 15 * sell_score < 100 THEN 30 + 15 * sell_score ELSE 100]
    ELSE [signal |-> "hold", confidence |-> 70]

\* RuleEngine._integrate_signals, final decision: the signal and its
\* confidence in hundredths.
integrate_signals(buy_score, sell_score) ==
    IF buy_score >= 4 /\ sell_score <= 1
    THEN [signal |-> "buy",
          confidence |-> IF 30 + 15 * buy_score < 100 THEN 30 + 15 * buy_score ELSE 100]
    ELSE IF sell_score >= 4 /\ buy_score <= 1
    THEN [signal |-> "sell",
          confidence |-> IF 30 + 15 * sell_score < 100 THEN 30 + 15 * sell_score ELSE 100]
    ELSE [signal |-> "hold", confidence |-> 50]

\* The scores _integrate_signals can add up: 3 + 2 + 3 at most on each side.
Scores == 0..8

\* _integrate_signals as it would be if a positive average sentiment of
\* exactly 0.5 counted as strong.
buy_score_inclusive(t, n) ==
    (IF t.trend = "up" /\ t.momentum = "bullish" THEN 3
     ELSE IF t.trend = "up" THEN 1 ELSE 0)
    + (IF t.oversold THEN 2 ELSE 0)
    + (IF n.count > 0
       THEN (IF n.avg_sentiment >= 50 /\ n.avg_impact >= 300 THEN 3
             ELSE IF n.avg_sentiment > 0 THEN 1 ELSE 0)
       ELSE 0)

\* _integrate_signals, the buy score of technical state t and news summary n.
buy_score(t, n) ==
    LET technical_trend ==
            IF t.trend = "up" /\ t.momentum = "bullish" THEN 3
            ELSE IF t.trend = "up" THEN 1
            ELSE 0
        rsi == IF t.oversold THEN 2 ELSE 0
        news == IF n.count > 0
                THEN (IF n.avg_sentiment > 50 /\ n.avg_impact >= 300 THEN 3
                      ELSE IF n.avg_sentiment > 0 THEN 1
                      ELSE 0)
                ELSE 0
    IN  technical_trend + rsi + news

\* _integrate_signals, the sell score of technical state t and news summary n.
sell_score(t, n) ==
    LET technical_trend ==
            IF t.trend = "down" /\ t.momentum = "bearish" THEN 3
            ELSE IF t.trend = "down" THEN 1
            ELSE 0
        rsi == IF t.overbought THEN 2 ELSE 0
        news == IF n.count > 0
                THEN (IF n.avg_sentiment < -50 /\ n.avg_impact >= 300 THEN 3
                      ELSE IF n.avg_sentiment < 0 THEN 1
                      ELSE 0)
                ELSE 0
    IN  technical_trend + rsi + news

\* What TechnicalAnalyzer.analyze hands over: the trend, the momentum and the
\* RSI flags, of which at most one is set (rsi >= 70, rsi <= 30).
Technicals ==
    {t \in [trend : {"up", "down"}, momentum : {"bullish", "bearish", "neutral"},
            overbought : BOOLEAN, oversold : BOOLEAN] :
        ~(t.overbought /\ t.oversold)}

\* avg_sentiment in hundredths: both sides of 0 and of the thresholds -0.5
\* and 0.5, the thresholds themselves, and 1.0.
Sentiments == {-56, -50, -10, 0, 10, 50, 56, 100}
\* avg_impact in hundredths: below the threshold 3, on it and above it.
Impacts == {290, 300, 400}

\* _summarize_news on no news.
NoNews ==
    [count |-> 0, avg_sentiment |-> 0, avg_impact |-> 0,
     bullish_count |-> 0, bearish_count |-> 0, neutral_count |-> 0]

\* The summaries _integrate_signals is called on: no news, or count items of
\* one sentiment with the given averages.
NewsSummaries ==
    {NoNews}
    \cup {[count |-> c, avg_sentiment |-> a, avg_impact |-> m,
           bullish_count |-> IF a > 0 THEN c ELSE 0,
           bearish_count |-> IF a < 0 THEN c ELSE 0,
           neutral_count |-> IF a = 0 THEN c ELSE 0] :
             c \in {1, 2}, a \in Sentiments, m \in Impacts}

\* The news documents the query of _fetch_recent_news can return: the
\* sentiment, and the impact on the symbol, which the query filters to >= 3.
NewsEvents == [sentiment : {-2, 0, 1}, impact : {3, 4}]

RECURSIVE SeqsUpTo(_, _)
\* The sequences over S of length at most n.
SeqsUpTo(S, n) ==
    IF n = 0 THEN {<<>>}
    ELSE LET shorter == SeqsUpTo(S, n - 1)
         IN  shorter \cup {Append(q, x) : q \in {r \in shorter : Len(r) = n - 1}, x \in S}

\* What the query of _fetch_recent_news does: it raises, or it returns
\* documents. "pending" is before the query, "direct" a call of
\* _integrate_signals on a summary that no query produced.
Fetches ==
    {[state |-> "raised", docs |-> <<>>]}
    \cup {[state |-> "returned", docs |-> d] : d \in SeqsUpTo(NewsEvents, MaxNews)}
FetchPending == [state |-> "pending", docs |-> <<>>]
FetchDirect == [state |-> "direct", docs |-> <<>>]

\* _fetch_recent_news: the documents, or the empty list when the query raised.
fetch_recent_news(f) == IF f.state = "raised" THEN <<>> ELSE f.docs

RECURSIVE Sum(_, _)
\* sum(field of news for news in news_list)
Sum(news_list, field) ==
    IF news_list = <<>> THEN 0
    ELSE news_list[1][field] + Sum(Tail(news_list), field)

\* round(total / n, 2) in hundredths, to the nearest; the quotients of the
\* lists used are never halfway.
Round2(total, n) == (2 * 100 * total + n) \div (2 * n)

\* sum(1 for news in news_list if the sentiment is in S)
CountIn(news_list, S) ==
    Cardinality({k \in 1..Len(news_list) : news_list[k].sentiment \in S})

\* _summarize_news as it would be if an empty list were averaged like any
\* other, the division by zero giving the average -1.
summarize_news_no_guard(news_list) ==
    LET n == IF news_list = <<>> THEN 1 ELSE Len(news_list)
    IN  [count |-> Len(news_list),
         avg_sentiment |-> IF news_list = <<>> THEN -1
                           ELSE Round2(Sum(news_list, "sentiment"), n),
         avg_impact |-> IF news_list = <<>> THEN -1
                        ELSE Round2(Sum(news_list, "impact"), n),
         bullish_count |-> CountIn(news_list, {1, 2}),
         bearish_count |-> CountIn(news_list, {-2, -1}),
         neutral_count |-> CountIn(news_list, {0})]

\* _summarize_news(news_list, symbol)
summarize_news(news_list) ==
    IF news_list = <<>> THEN NoNews
    ELSE [count |-> Len(news_list),
          avg_sentiment |-> Round2(Sum(news_list, "sentiment"), Len(news_list)),
          avg_impact |-> Round2(Sum(news_list, "impact"), Len(news_list)),
          bullish_count |-> CountIn(news_list, {1, 2}),
          bearish_count |-> CountIn(news_list, {-2, -1}),
          neutral_count |-> CountIn(news_list, {0})]

\* _integrate_signals has not been called.
NoDecision == [made |-> FALSE, buy_score |-> 0, sell_score |-> 0, signal |-> "", confidence |-> 0]

\* What _integrate_signals returns on technical state t and news summary n,
\* with the scores it added up.
Decided(t, n) ==
    LET b == buy_score(t, n)
        s == sell_score(t, n)
        d == integrate_signals(b, s)
    IN  [made |-> TRUE, buy_score |-> b, sell_score |-> s,
         signal |-> d.signal, confidence |-> d.confidence]

SignalIdle ==
    /\ technical = [trend |-> "up", momentum |-> "neutral",
                    overbought |-> FALSE, oversold |-> FALSE]
    /\ news_summary = NoNews
    /\ fetched = FetchDirect
    /\ decision = NoDecision

\* _integrate_signals(technical, news_summary, symbol), called on a summary:
\* the two scores, then the final decision on them.
integrate ==
    /\ ~decision.made
    /\ fetched = FetchDirect
    /\ decision' = Decided(technical, news_summary)
    /\ UNCHANGED <<technical, news_summary, fetched>>
    /\ UNCHANGED outsideSignal

\* generate_signal, from the indicators on: the news query, the summary of
\* what it returned, and the decision.
generate_signal ==
    /\ ~decision.made
    /\ fetched = FetchPending
    /\ \E f \in Fetches :
          /\ fetched' = f
          /\ news_summary' = summarize_news(fetch_recent_news(f))
          /\ decision' = Decided(technical, summarize_news(fetch_recent_news(f)))
    /\ UNCHANGED technical
    /\ UNCHANGED outsideSignal

SignalNext == integrate \/ generate_signal

\* What rule_engine.generate_signal(symbol) does: raise RuleEngineError
\* ("error") or return a signal. It never returns an empty value ("none"),
\* which execute_signal_for_symbol nevertheless provides for.
SignalOutcomes ==
    {[kind |-> "error", signal |-> "", confidence |-> 0]}
    \cup {[kind |-> "signal", signal |-> d.signal, confidence |-> d.confidence] :
              d \in {integrate_signals(b, s) : b \in Scores, s \in Scores}}

\* What a get_positions call does: raise AuthenticationError, raise another
\* exception (RateLimitError and APIError, which _can_open_position does not
\* tell apart), or return a list of one of these lengths (none, and the
\* lengths on either side of the limit the list is compared with).
PositionOutcomes(limit) ==
    {[raised |-> e, count |-> 0] : e \in {"auth", "api_error"}}
    \cup {[raised |-> "", count |-> n] : n \in {0, limit - 1, limit}}
Raised(q) == q.raised # ""

\* What place_order does on a live client: return the order, or raise
\* AuthenticationError, OrderError or RateLimitError.
OrderOutcomes == {"ok", "auth", "order_error", "rate_limit"}

\* A call that is not made.
Unused == "unused"
NoQuery == [raised |-> Unused, count |-> 0]

TradeResult(success, action, symbol, size, order_id, reason, dry) ==
    [success |-> success, action |-> action, symbol |-> symbol, size |-> size,
     order_id |-> order_id, reason |-> reason, dry_run |-> dry]

\* TradeResult.order_id left at its default
None == "None"

\* _can_open_position as it would be if a count equal to its limit passed.
can_open_position_strict(symbol, side, q1, q2) ==
    IF dry_run THEN [ok |-> TRUE, reason |-> "DRY-RUN mode", asked |-> 0]
    ELSE IF q1.raised = "auth"
    THEN [ok |-> FALSE, reason |-> "Authentication required", asked |-> 1]
    ELSE IF Raised(q1)
    THEN [ok |-> FALSE, reason |-> "Position check failed", asked |-> 1]
    ELSE IF q2.raised = "auth"
    THEN [ok |-> FALSE, reason |-> "Authentication required", asked |-> 2]
    ELSE IF Raised(q2)
    THEN [ok |-> FALSE, reason |-> "Position check failed", asked |-> 2]
    ELSE IF q1.count > max_positions_per_symbol
    THEN [ok |-> FALSE, reason |-> "Max positions per symbol reached", asked |-> 2]
    ELSE IF q2.count > max_total_positions
    THEN [ok |-> FALSE, reason |-> "Max total positions reached", asked |-> 2]
    ELSE [ok |-> TRUE, reason |-> "OK", asked |-> 2]

\* _can_open_position as it would be if a query that raised anything but
\* AuthenticationError let the order through.
can_open_position_fails_open(symbol, side, q1, q2) ==
    IF dry_run THEN [ok |-> TRUE, reason |-> "DRY-RUN mode", asked |-> 0]
    ELSE IF q1.raised = "auth"
    THEN [ok |-> FALSE, reason |-> "Authentication required", asked |-> 1]
    ELSE IF Raised(q1)
    THEN [ok |-> TRUE, reason |-> "OK", asked |-> 1]
    ELSE IF q2.raised = "auth"
    THEN [ok |-> FALSE, reason |-> "Authentication required", asked |-> 2]
    ELSE IF Raised(q2)
    THEN [ok |-> TRUE, reason |-> "OK", asked |-> 2]
    ELSE IF q1.count >= max_positions_per_symbol
    THEN [ok |-> FALSE, reason |-> "Max positions per symbol reached", asked |-> 2]
    ELSE IF q2.count >= max_total_positions
    THEN [ok |-> FALSE, reason |-> "Max total positions reached", asked |-> 2]
    ELSE [ok |-> TRUE, reason |-> "OK", asked |-> 2]

\* _can_open_position: q1 and q2 are what the two position queries do; asked
\* is the number of get_positions calls it made.
can_open_position(symbol, side, q1, q2) ==
    IF dry_run THEN [ok |-> TRUE, reason |-> "DRY-RUN mode", asked |-> 0]
    ELSE IF q1.raised = "auth"
    THEN [ok |-> FALSE, reason |-> "Authentication required", asked |-> 1]
    ELSE IF Raised(q1)
    THEN [ok |-> FALSE, reason |-> "Position check failed", asked |-> 1]
    ELSE IF q2.raised = "auth"
    THEN [ok |-> FALSE, reason |-> "Authentication required", asked |-> 2]
    ELSE IF Raised(q2)
    THEN [ok |-> FALSE, reason |-> "Position check failed", asked |-> 2]
    ELSE IF q1.count >= max_positions_per_symbol
    THEN [ok |-> FALSE, reason |-> "Max positions per symbol reached", asked |-> 2]
    ELSE IF q2.count >= max_total_positions
    THEN [ok |-> FALSE, reason |-> "Max total positions reached", asked |-> 2]
    ELSE [ok |-> TRUE, reason |-> "OK", asked |-> 2]

\* GMOCoinClient.place_order: the order it returns, or the exception it raises.
place_order(symbol, side, size, o) ==
    IF dry_run
    THEN [raised |-> "", orderId |-> "DRY_", dry |-> TRUE]
    ELSE IF o = "ok" THEN [raised |-> "", orderId |-> "ORDER", dry |-> FALSE]
    ELSE IF o = "auth" THEN [raised |-> "AuthenticationError", orderId |-> None, dry |-> FALSE]
    ELSE IF o = "order_error" THEN [raised |-> "OrderError", orderId |-> None, dry |-> FALSE]
    ELSE [raised |-> "RateLimitError", orderId |-> None, dry |-> FALSE]

\* What a call returns ([raised |-> "", result |-> r]) or raises, the
\* place_order calls it made and the number of get_positions calls it made.
Returned(r, placed) == [raised |-> "", result |-> r, placed |-> placed, asked |-> 0]
Raises(e, placed) ==
    [raised |-> e, result |-> TradeResult(FALSE, "", "", 0, None, "", FALSE),
     placed |-> placed, asked |-> 0]

\* _execute_buy and _execute_sell, which differ in the side only.
execute_order(symbol, side, q1, q2, o) ==
    LET can == can_open_position(symbol, side, q1, q2)
        ord == place_order(symbol, side, default_size, o)
        placed == <<[symbol |-> symbol, side |-> side, size |-> default_size]>>
        out == IF ~can.ok
               THEN Returned(TradeResult(TRUE, "SKIP", symbol, 0, None, can.reason,
                                         dry_run), <<>>)
               ELSE IF ord.raised = ""
               THEN Returned(TradeResult(TRUE, side, symbol, default_size, ord.orderId,
                                         "signal", ord.dry), placed)
               ELSE IF ord.raised \in {"AuthenticationError", "OrderError"}
               THEN Returned(TradeResult(FALSE, side, symbol, default_size, None,
                                         "Order failed", dry_run), placed)
               ELSE Raises(ord.raised, placed)
    IN  [out EXCEPT !.asked = can.asked]

\* execute_signal_for_symbol as it would be if a confidence equal to
\* min_confidence were blocked too.
execute_signal_blocks_equal(symbol, sig, q1, q2, o) ==
    IF sig.kind = "error" THEN Raises("RuleEngineError", <<>>)
    ELSE IF sig.kind = "none"
    THEN Returned(TradeResult(FALSE, "SKIP", symbol, 0, None,
                              "Failed to generate signal", dry_run), <<>>)
    ELSE IF sig.confidence <= min_confidence
    THEN Returned(TradeResult(TRUE, "HOLD", symbol, 0, None,
                              "Confidence too low", dry_run), <<>>)
    ELSE IF sig.signal = "buy" THEN execute_order(symbol, "BUY", q1, q2, o)
    ELSE IF sig.signal = "sell" THEN execute_order(symbol, "SELL", q1, q2, o)
    ELSE Returned(TradeResult(TRUE, "HOLD", symbol, 0, None, "signal", dry_run), <<>>)

execute_signal_for_symbol(symbol, sig, q1, q2, o) ==
    IF sig.kind = "error" THEN Raises("RuleEngineError", <<>>)
    ELSE IF sig.kind = "none"
    THEN Returned(TradeResult(FALSE, "SKIP", symbol, 0, None,
                              "Failed to generate signal", dry_run), <<>>)
    ELSE IF sig.confidence < min_confidence
    THEN Returned(TradeResult(TRUE, "HOLD", symbol, 0, None,
                              "Confidence too low", dry_run), <<>>)
    ELSE IF sig.signal = "buy" THEN execute_order(symbol, "BUY", q1, q2, o)
    ELSE IF sig.signal = "sell" THEN execute_order(symbol, "SELL", q1, q2, o)
    ELSE Returned(TradeResult(TRUE, "HOLD", symbol, 0, None, "signal", dry_run), <<>>)

\* The gateway is consulted only on these paths; elsewhere its behaviour is
\* Unused.
AsksPositions(sig) ==
    /\ sig.kind = "signal"
    /\ sig.confidence >= min_confidence
    /\ sig.signal \in {"buy", "sell"}
    /\ ~dry_run
FirstQueries(sig) ==
    IF AsksPositions(sig) THEN PositionOutcomes(max_positions_per_symbol) ELSE {NoQuery}
SecondQueries(sig, q1) ==
    IF AsksPositions(sig) /\ ~Raised(q1)
    THEN PositionOutcomes(max_total_positions) ELSE {NoQuery}
OrderReplies(sig, q1, q2) ==
    IF AsksPositions(sig) /\ can_open_position("", "", q1, q2).ok
    THEN OrderOutcomes ELSE {Unused}
SaveReplies == IF db THEN {"ok", "error"} ELSE {Unused}

\* No turn of the loop was taken yet.
NoTurn ==
    [gate |-> "", signal |-> "", asked |-> 0, failed |-> FALSE, below |-> FALSE,
     placed |-> 0]

\* The record of a turn of the loop. gate: the signal was not generated
\* ("error", "none"), was "blocked" by min_confidence or "passed" it; asked
\* and placed: the get_positions and place_order calls made; failed: a
\* position query raised; below: two position queries returned and reported
\* fewer positions than the limits.
Turn(sig, q1, q2, out) ==
    [gate |-> IF sig.kind # "signal" THEN sig.kind
              ELSE IF sig.confidence < min_confidence THEN "blocked" ELSE "passed",
     signal |-> sig.signal,
     asked |-> out.asked,
     failed |-> \/ q1 # NoQuery /\ Raised(q1)
                \/ q2 # NoQuery /\ Raised(q2),
     below |-> /\ ~Raised(q1)
               /\ ~Raised(q2)
               /\ q1.count < max_positions_per_symbol
               /\ q2.count < max_total_positions,
     placed |-> Len(out.placed)]

\* execute_signals, entry: results = []
execute_signals ==
    /\ pc \in {"idle", "done", "raised"}
    /\ pc' = "loop"
    /\ i' = 1
    /\ results' = <<>>
    /\ orders' = <<>>
    /\ saved' = <<>>
    /\ last' = NoTurn
    /\ UNCHANGED <<symbols, min_confidence, dry_run, db>>
    /\ UNCHANGED outsideExec

\* _save_trade_result as it would be without its try/except.
save_propagates(result, sv) ==
    IF sv = "ok" THEN [raised |-> "", stored |-> TRUE]
    ELSE [raised |-> "Exception", stored |-> FALSE]

\* _save_trade_result: sv is what the trades collection does with the write.
save_trade_result(result, sv) ==
    IF sv = "ok" THEN [raised |-> "", stored |-> TRUE]
    ELSE [raised |-> "", stored |-> FALSE]

\* execute_signals, "except Exception": the exceptions the loop converts.
Caught(e) ==
    e \in {"RuleEngineError", "AuthenticationError", "OrderError", "RateLimitError",
           "APIError", "Exception"}

\* execute_signals, the body of the loop for config.symbols[i]: the symbol's
\* result is appended and saved; an exception raised on the way is converted
\* to a failed SKIP result. sig, q1, q2, o and sv are what signal generation,
\* the two position queries, place_order and the write to the trades
\* collection do.
LoopTurn(sig, q1, q2, o, sv) ==
    LET out == execute_signal_for_symbol(symbols[i], sig, q1, q2, o)
        sav == IF out.raised = "" /\ db
               THEN save_trade_result(out.result, sv)
               ELSE [raised |-> "", stored |-> FALSE]
        exc == IF out.raised # "" THEN out.raised ELSE sav.raised
        appended == IF out.raised = "" THEN Append(results, out.result) ELSE results
        skip == TradeResult(FALSE, "SKIP", symbols[i], 0, None, "Error", dry_run)
    IN  /\ last' = Turn(sig, q1, q2, out)
        /\ orders' = orders \o out.placed
        /\ saved' = IF sav.stored THEN Append(saved, out.result.symbol) ELSE saved
        /\ IF exc = "" THEN results' = appended /\ pc' = pc
           ELSE IF Caught(exc) THEN results' = Append(appended, skip) /\ pc' = pc
           ELSE results' = appended /\ pc' = "raised"
        /\ i' = i + 1
        /\ UNCHANGED <<symbols, min_confidence, dry_run, db>>
        /\ UNCHANGED <<riskVars, signalVars, monitorVars, analyzerVars, serviceVars>>

\* execute_signals, one turn of the loop over config.symbols, against a
\* gateway that may do anything.
execute_signals_loop ==
    /\ pc = "loop"
    /\ i <= Len(symbols)
    /\ \E sig \in SignalOutcomes :
       \E q1 \in FirstQueries(sig) :
       \E q2 \in SecondQueries(sig, q1) :
       \E o \in OrderReplies(sig, q1, q2) :
       \E sv \in SaveReplies :
          LoopTurn(sig, q1, q2, o, sv)
    /\ UNCHANGED <<gatewayVars, brokerVars>>

\* execute_signals, exit: return results
execute_signals_return ==
    /\ pc = "loop"
    /\ i > Len(symbols)
    /\ pc' = "done"
    /\ UNCHANGED <<symbols, min_confidence, dry_run, db, i, results, orders, saved, last>>
    /\ UNCHANGED outsideExec

SymbolLists == UNION {[1..n -> Symbols] : n \in 0..MaxSymbols}

\* ExecuteSignalsRequest.min_confidence, in hundredths
MinConfidences == {70, 100}

ExecInit ==
    /\ symbols \in SymbolLists
    /\ min_confidence \in MinConfidences
    /\ dry_run \in BOOLEAN
    /\ db \in BOOLEAN
    /\ pc = "idle"
    /\ i = 1
    /\ results = <<>>
    /\ orders = <<>>
    /\ saved = <<>>
    /\ last = NoTurn

\* No executor is at work.
ExecIdle ==
    /\ symbols = <<>>
    /\ min_confidence = 70
    /\ dry_run = TRUE
    /\ db = FALSE
    /\ pc = "idle"
    /\ i = 1
    /\ results = <<>>
    /\ orders = <<>>
    /\ saved = <<>>
    /\ last = NoTurn

\* The risk manager is fresh and never called.
RiskIdle ==
    /\ RiskInit
    /\ riskConfig = [max_daily_loss |-> MaxLimit, max_daily_trades |-> MaxLimit,
                     max_consecutive_losses |-> MaxLimit]

ExecNext ==
    \/ execute_signals
    \/ execute_signals_loop
    \/ execute_signals_return

\* ----------------------------------------------------------- GMOCoinClient

\* What one HTTP exchange does: a 200 body with status 0, a 200 body with a
\* non-zero status, HTTP 429, HTTP 401, another HTTP error status (raised by
\* raise_for_status), or no response (connection error, timeout).
HttpOutcomes == {"ok", "rejected", "429", "401", "5xx", "timeout"}

\* The outcomes that raise requests.exceptions.RequestException.
RequestExceptions == {"5xx", "timeout"}

\* _request was not called.
NotRequested ==
    [attempt |-> 0, sent |-> 0, waits |-> <<>>, exchanges |-> <<>>, status |-> "none"]

\* _request, entry: the for loop over range(1, max_retries + 1); with nothing
\* to iterate over it falls through to raise APIError("Max retries exceeded").
request_start ==
    [attempt |-> 1, sent |-> 0, waits |-> <<>>, exchanges |-> <<>>,
     status |-> IF max_retries >= 1 THEN "running" ELSE "APIError"]

\* _request as it would be if HTTP 401 were retried like a network failure.
request_retries_401(r, private, x) ==
    IF private /\ ~credentials
    THEN [r EXCEPT !.status = "AuthenticationError"]
    ELSE LET s == [r EXCEPT !.sent = @ + 1, !.exchanges = Append(@, x)]
         IN  IF x = "429" THEN [s EXCEPT !.status = "RateLimitError"]
             ELSE IF x \in RequestExceptions \cup {"401"}
             THEN (IF r.attempt < max_retries
                   THEN [s EXCEPT !.waits = Append(@, retry_delay * r.attempt),
                                  !.attempt = @ + 1]
                   ELSE [s EXCEPT !.status = IF x = "401" THEN "AuthenticationError"
                                             ELSE "APIError"])
             ELSE IF x = "rejected" THEN [s EXCEPT !.status = "APIError"]
             ELSE [s EXCEPT !.status = "returned"]

\* _request as it would be if the last attempt were retried once more.
request_extra_attempt(r, private, x) ==
    IF private /\ ~credentials
    THEN [r EXCEPT !.status = "AuthenticationError"]
    ELSE LET s == [r EXCEPT !.sent = @ + 1, !.exchanges = Append(@, x)]
         IN  IF x = "429" THEN [s EXCEPT !.status = "RateLimitError"]
             ELSE IF x = "401" THEN [s EXCEPT !.status = "AuthenticationError"]
             ELSE IF x \in RequestExceptions
             THEN (IF r.attempt <= max_retries
                   THEN [s EXCEPT !.waits = Append(@, retry_delay * r.attempt),
                                  !.attempt = @ + 1]
                   ELSE [s EXCEPT !.status = "APIError"])
             ELSE IF x = "rejected" THEN [s EXCEPT !.status = "APIError"]
             ELSE [s EXCEPT !.status = "returned"]

\* _request as it would be if a non-zero status in the body were retried like
\* a network failure.
request_retries_rejection(r, private, x) ==
    IF private /\ ~credentials
    THEN [r EXCEPT !.status = "AuthenticationError"]
    ELSE LET s == [r EXCEPT !.sent = @ + 1, !.exchanges = Append(@, x)]
         IN  IF x = "429" THEN [s EXCEPT !.status = "RateLimitError"]
             ELSE IF x = "401" THEN [s EXCEPT !.status = "AuthenticationError"]
             ELSE IF x \in RequestExceptions \cup {"rejected"}
             THEN (IF r.attempt < max_retries
                   THEN [s EXCEPT !.waits = Append(@, retry_delay * r.attempt),
                                  !.attempt = @ + 1]
                   ELSE [s EXCEPT !.status = "APIError"])
             ELSE [s EXCEPT !.status = "returned"]

\* _request, one iteration of the loop: r is the call so far, x what the HTTP
\* exchange does if the request is sent.
request_attempt(r, private, x) ==
    IF private /\ ~credentials
    THEN [r EXCEPT !.status = "AuthenticationError"]
    ELSE LET s == [r EXCEPT !.sent = @ + 1, !.exchanges = Append(@, x)]
         IN  IF x = "429" THEN [s EXCEPT !.status = "RateLimitError"]
             ELSE IF x = "401" THEN [s EXCEPT !.status = "AuthenticationError"]
             ELSE IF x \in RequestExceptions
             THEN (IF r.attempt < max_retries
                   THEN [s EXCEPT !.waits = Append(@, retry_delay * r.attempt),
                                  !.attempt = @ + 1]
                   ELSE [s EXCEPT !.status = "APIError"])
             ELSE IF x = "rejected" THEN [s EXCEPT !.status = "APIError"]
             ELSE [s EXCEPT !.status = "returned"]

\* The methods with an "if self.dry_run" branch, were cancel_order without it.
Simulated_NoCancel ==
    {"place_order", "close_position", "close_all_positions",
     "place_ifdoco_order", "place_ifd_order"}

\* The methods with an "if self.dry_run" branch.
Simulated ==
    {"place_order", "cancel_order", "close_position", "close_all_positions",
     "place_ifdoco_order", "place_ifd_order"}

\* The methods that convert APIError to OrderError.
OrderCalls ==
    {"place_order", "close_position", "close_all_positions",
     "place_ifdoco_order", "place_ifd_order"}

\* The methods of the client called here: those that place, cancel or close
\* orders, a private query and a public one.
Methods ==
    {"place_order", "cancel_order", "close_position", "close_all_positions",
     "place_ifdoco_order", "place_ifd_order", "get_positions", "get_klines"}

\* The private flag the method passes to _request.
Private(m) == m # "get_klines"

\* order_id arguments of cancel_order: the id of a simulated order, or of a
\* real one.
OrderIds == {"DRY_", "ORDER"}

\* A response: whether it carries "_dry_run": True, and the prefixes of the
\* order identifiers in it.
Response(marker, ids) == [dry_run |-> marker, ids |-> ids]
NoResponse == Response(FALSE, <<>>)

\* The response a method synthesizes in dry-run mode: _simulate_order,
\* _simulate_close_position, _simulate_ifdoco_order (rootOrderId and three
\* orders), _simulate_ifd_order (rootOrderId and two orders), and the
\* literals cancel_order and close_all_positions return.
simulate(m, order_id) ==
    IF m \in {"place_order", "close_position"} THEN Response(TRUE, <<"DRY_">>)
    ELSE IF m = "place_ifdoco_order"
    THEN Response(TRUE, <<"DRY_", "DRY_", "DRY_", "DRY_">>)
    ELSE IF m = "place_ifd_order" THEN Response(TRUE, <<"DRY_", "DRY_", "DRY_">>)
    ELSE IF m = "cancel_order" THEN Response(FALSE, <<order_id>>)
    ELSE Response(FALSE, <<>>)

\* What the method does with the way its _request call ended.
surface(m, status) ==
    IF status = "running" THEN ""
    ELSE IF status = "APIError" /\ m \in OrderCalls THEN "OrderError"
    ELSE status

\* A method of the client is called.
gateway_call(m, order_id) ==
    /\ outcome # ""
    /\ method' = [name |-> m, order_id |-> IF m = "cancel_order" THEN order_id ELSE ""]
    /\ IF dry_run /\ m \in Simulated
       THEN /\ request' = NotRequested
            /\ outcome' = "returned"
            /\ response' = simulate(m, order_id)
       ELSE /\ request' = request_start
            /\ outcome' = surface(m, request_start.status)
            /\ response' = NoResponse
    /\ UNCHANGED <<credentials, max_retries, retry_delay, dry_run>>
    /\ UNCHANGED outsideGateway

\* The method's _request call makes its next attempt.
gateway_request ==
    /\ outcome = ""
    /\ \E x \in HttpOutcomes :
          LET r == request_attempt(request, Private(method.name), x)
          IN  /\ request' = r
              /\ outcome' = surface(method.name, r.status)
              /\ response' = IF r.status = "returned"
                             THEN Response(FALSE, <<"ORDER">>) ELSE NoResponse
    /\ UNCHANGED <<credentials, max_retries, retry_delay, dry_run, method>>
    /\ UNCHANGED outsideGateway

GatewayInit ==
    /\ credentials \in BOOLEAN
    /\ max_retries \in 0..MaxRetries
    /\ retry_delay \in 1..MaxDelay
    /\ method = [name |-> "__init__", order_id |-> ""]
    /\ request = NotRequested
    /\ outcome = "returned"
    /\ response = NoResponse

\* A client with credentials and the default max_retries and retry_delay, not
\* called through this interface.
GatewayIdle ==
    /\ credentials = TRUE
    /\ max_retries = 3
    /\ retry_delay = 1
    /\ method = [name |-> "__init__", order_id |-> ""]
    /\ request = NotRequested
    /\ outcome = "returned"
    /\ response = NoResponse

GatewayNext ==
    \/ \E m \in Methods, id \in OrderIds : gateway_call(m, id)
    \/ gateway_request

\* ------------------------------------------- RiskManager: open positions

\* Prices are counted in units of 0.0001.
PositionSymbols == {"USD_JPY", "EUR_USD"}

\* _get_pip_value: 0.01 for a symbol that ends in _JPY, else 0.0001.
get_pip_value(symbol) == IF symbol \in {"USD_JPY", "EUR_JPY"} THEN 100 ELSE 1

\* calculate_stop_loss_price(entry_price, side, symbol)
calculate_stop_loss_price(entry_price, side, symbol) ==
    IF side = "BUY" THEN entry_price - stop_loss_pips * get_pip_value(symbol)
    ELSE entry_price + stop_loss_pips * get_pip_value(symbol)

\* calculate_take_profit_price(entry_price, side, symbol)
calculate_take_profit_price(entry_price, side, symbol) ==
    IF side = "BUY" THEN entry_price + take_profit_pips * get_pip_value(symbol)
    ELSE entry_price - take_profit_pips * get_pip_value(symbol)

\* The forms of position["timestamp"]: absent, ISO-8601 without a zone,
\* the broker's ISO-8601 UTC form with a trailing Z.
TimestampForms == {"", "naive", "utc_z"}

\* datetime.fromisoformat(timestamp_str.replace("Z", "+00:00")): a datetime
\* without zone, or one with the zone UTC.
fromisoformat(form) == IF form = "utc_z" THEN "aware" ELSE "naive"

Closing(close, reason) == [called |-> TRUE, close |-> close, reason |-> reason]
NotCalled == [called |-> FALSE, close |-> FALSE, reason |-> ""]

\* check_position_age(position_timestamp), on a position of the given age:
\* datetime.now() has no zone, and subtracting a datetime with a zone from
\* it raises TypeError.
check_position_age(zone, age) ==
    IF zone = "aware" THEN [raised |-> TRUE, expired |-> FALSE]
    ELSE [raised |-> FALSE, expired |-> age >= max_position_hours]

\* should_close_position as it would be if the stop had to be passed, not
\* only reached.
should_close_position_strict(pos, price) ==
    IF pos.price = 0 \/ pos.side = "" THEN Closing(FALSE, "Invalid position data")
    ELSE LET stop_loss == calculate_stop_loss_price(pos.price, pos.side, pos.symbol)
             take_profit == calculate_take_profit_price(pos.price, pos.side, pos.symbol)
         IN  IF pos.side = "BUY" /\ price < stop_loss
             THEN Closing(TRUE, "Stop loss triggered")
             ELSE IF pos.side = "SELL" /\ price > stop_loss
             THEN Closing(TRUE, "Stop loss triggered")
             ELSE IF pos.side = "BUY" /\ price >= take_profit
             THEN Closing(TRUE, "Take profit triggered")
             ELSE IF pos.side = "SELL" /\ price <= take_profit
             THEN Closing(TRUE, "Take profit triggered")
             ELSE IF pos.timestamp # ""
                     /\ check_position_age(fromisoformat(pos.timestamp), pos.age).expired
             THEN Closing(TRUE, "Position age exceeded")
             ELSE Closing(FALSE, "Position OK")

\* should_close_position(position, current_price): an exception of the age
\* check is caught and logged, and the position is reported as OK.
should_close_position(pos, price) ==
    IF pos.price = 0 \/ pos.side = "" THEN Closing(FALSE, "Invalid position data")
    ELSE LET stop_loss == calculate_stop_loss_price(pos.price, pos.side, pos.symbol)
             take_profit == calculate_take_profit_price(pos.price, pos.side, pos.symbol)
         IN  IF pos.side = "BUY" /\ price <= stop_loss
             THEN Closing(TRUE, "Stop loss triggered")
             ELSE IF pos.side = "SELL" /\ price >= stop_loss
             THEN Closing(TRUE, "Stop loss triggered")
             ELSE IF pos.side = "BUY" /\ price >= take_profit
             THEN Closing(TRUE, "Take profit triggered")
             ELSE IF pos.side = "SELL" /\ price <= take_profit
             THEN Closing(TRUE, "Take profit triggered")
             ELSE IF pos.timestamp # ""
                     /\ check_position_age(fromisoformat(pos.timestamp), pos.age).expired
             THEN Closing(TRUE, "Position age exceeded")
             ELSE Closing(FALSE, "Position OK")

\* The positions should_close_position is called on: the entry price 157.5
\* or none, a side or none, and an age of up to one hour past the largest
\* max_position_hours.
Positions ==
    [price : {0, 1575000}, side : {"BUY", "SELL", ""}, symbol : PositionSymbols,
     timestamp : TimestampForms, age : 0..(MaxHours + 1)]

\* The current prices: the entry price and up to MaxPips + 1 pips of either
\* pip value to either side of it.
PriceOffsets ==
    {k * u : k \in (0 - (MaxPips + 1))..(MaxPips + 1), u \in {1, 100}}

MonitorInit ==
    /\ stop_loss_pips \in 1..MaxPips
    /\ take_profit_pips \in 1..MaxPips
    /\ max_position_hours \in 1..MaxHours
    /\ position \in {q \in Positions : q.timestamp = "" => q.age = 0}
    /\ current_price \in {position.price + d : d \in PriceOffsets}
    /\ closing = NotCalled

MonitorIdle ==
    /\ stop_loss_pips = 1
    /\ take_profit_pips = 1
    /\ max_position_hours = 1
    /\ position = [price |-> 0, side |-> "", symbol |-> "USD_JPY", timestamp |-> "", age |-> 0]
    /\ current_price = 0
    /\ closing = NotCalled

\* should_close_position(position, current_price)
should_close ==
    /\ ~closing.called
    /\ closing' = should_close_position(position, current_price)
    /\ UNCHANGED <<stop_loss_pips, take_profit_pips, max_position_hours, position,
                   current_price>>
    /\ UNCHANGED outsideMonitor

MonitorNext == should_close

\* ------------------------------------------------------- TechnicalAnalyzer

\* The bars a series needs, and the windows of the indicators.
MinBars == 50
Ma20Window == 20
Ma50Window == 50
RsiPeriod == 14

\* What one day's get_klines does: it returns that day's bars, or _request
\* raises.  24 bars are a day of hourly bars; 25 + 24 bars are one short of
\* MinBars and 25 + 25 are just enough.
DayFetches ==
    [kind : {"bars"}, bars : {0, 24, 25}]
        \cup [kind : {"APIError", "RateLimitError", "AuthenticationError"}, bars : {0}]

RECURSIVE FetchSeqs(_)
FetchSeqs(n) ==
    IF n = 0
    THEN {<<>>}
    ELSE {Append(s, f) : s \in FetchSeqs(n - 1), f \in DayFetches}

RECURSIVE BarsOf(_)
BarsOf(fetches) ==
    IF fetches = <<>>
    THEN 0
    ELSE (IF Head(fetches).kind = "bars" THEN Head(fetches).bars ELSE 0)
            + BarsOf(Tail(fetches))

\* get_klines_range: a day whose fetch raises APIError is skipped; any other
\* exception leaves the loop and the method.  The bars are sorted by openTime
\* at the end, so that a series is its closes in the order of time.
get_klines_range(fetches) ==
    LET others == {d \in 1..Len(fetches) :
                        fetches[d].kind \in {"RateLimitError", "AuthenticationError"}}
    IN  IF others # {}
        THEN [raised |-> fetches[CHOOSE d \in others : \A e \in others : d <= e].kind,
              count |-> 0]
        ELSE [raised |-> "", count |-> BarsOf(fetches)]

\* The closes of a series of n bars, by the shape of the series.
Shapes == {"constant", "rising", "falling", "zigzag", "climbing"}

Close(shape, k, n) ==
    CASE shape = "constant" -> 100
      [] shape = "rising"   -> 100 + k
      [] shape = "falling"  -> 100 + n - k
      [] shape = "zigzag"   -> 100 + (k % 2)
      [] shape = "climbing" -> 100 + (k \div 2) + 3 * (k % 2)

Closes(shape, n) == [k \in 1..n |-> Close(shape, k, n)]

\* The sum of the last w closes.
RECURSIVE SumLast(_, _)
SumLast(closes, w) ==
    IF w = 0
    THEN 0
    ELSE closes[Len(closes)] + SumLast(SubSeq(closes, 1, Len(closes) - 1), w - 1)

\* _calculate_ma: the two means in hundredths of a price unit.
calculate_ma(closes) ==
    LET ma20 == (100 \div Ma20Window) * SumLast(closes, Ma20Window)
        ma50 == (100 \div Ma50Window) * SumLast(closes, Ma50Window)
    IN  [ma20 |-> ma20, ma50 |-> ma50, ma20_above_ma50 |-> ma20 > ma50]

\* The gains and the losses of the last w deltas of the closes.
RECURSIVE Gain(_, _)
Gain(closes, w) ==
    IF w = 0
    THEN 0
    ELSE LET n == Len(closes)
             delta == closes[n] - closes[n - 1]
         IN  (IF delta > 0 THEN delta ELSE 0) + Gain(SubSeq(closes, 1, n - 1), w - 1)

RECURSIVE Loss(_, _)
Loss(closes, w) ==
    IF w = 0
    THEN 0
    ELSE LET n == Len(closes)
             delta == closes[n] - closes[n - 1]
         IN  (IF delta < 0 THEN -delta ELSE 0) + Loss(SubSeq(closes, 1, n - 1), w - 1)

\* _calculate_rsi: rs = avg_gain / avg_loss is a division of floats, so that
\* 0 / 0 is NaN and a positive gain over a zero loss is infinite.  The rsi is in
\* hundredths; every comparison with NaN is false.
calculate_rsi(closes) ==
    LET gain == Gain(closes, RsiPeriod)
        loss == Loss(closes, RsiPeriod)
        rsi == IF loss = 0
               THEN 100 * 100
               ELSE (2 * 100 * 100 * gain + (gain + loss)) \div (2 * (gain + loss))
        nan == gain = 0 /\ loss = 0
    IN  [nan |-> nan,
         rsi |-> IF nan THEN 0 ELSE rsi,
         overbought |-> ~nan /\ rsi >= 70 * 100,
         oversold |-> ~nan /\ rsi <= 30 * 100]

\* _calculate_macd: the histogram's last two values, by their signs.  The
\* averages of the histogram are exponential over the whole series; which
\* signs a series yields is left open here.
Signs == {-1, 0, 1}

calculate_macd_previous_only(prev_histogram, macd_histogram) ==
    [macd_histogram |-> macd_histogram,
     bullish_crossover |-> prev_histogram < 0,
     bearish_crossover |-> prev_histogram > 0]

calculate_macd(prev_histogram, macd_histogram) ==
    [macd_histogram |-> macd_histogram,
     bullish_crossover |-> prev_histogram < 0 /\ macd_histogram > 0,
     bearish_crossover |-> prev_histogram > 0 /\ macd_histogram < 0]

determine_trend(ma_data) == IF ma_data.ma20_above_ma50 THEN "up" ELSE "down"

determine_momentum_bearish_first(rsi, macd) ==
    IF macd.bearish_crossover \/ (rsi.overbought /\ macd.macd_histogram < 0)
    THEN "bearish"
    ELSE IF macd.bullish_crossover \/ (rsi.oversold /\ macd.macd_histogram > 0)
         THEN "bullish"
         ELSE "neutral"

determine_momentum(rsi, macd) ==
    IF macd.bullish_crossover \/ (rsi.oversold /\ macd.macd_histogram > 0)
    THEN "bullish"
    ELSE IF macd.bearish_crossover \/ (rsi.overbought /\ macd.macd_histogram < 0)
         THEN "bearish"
         ELSE "neutral"

\* The arguments _determine_momentum can be given.
RsiData == [nan : {FALSE}, rsi : {50 * 100}, overbought : BOOLEAN, oversold : BOOLEAN]
MacdData == [macd_histogram : Signs, bullish_crossover : BOOLEAN, bearish_crossover : BOOLEAN]

NoKlines == [fetches |-> <<>>, shape |-> ""]
NoRsi == [nan |-> FALSE, rsi |-> 0, overbought |-> FALSE, oversold |-> FALSE]
NoMacd == [macd_histogram |-> 0, bullish_crossover |-> FALSE, bearish_crossover |-> FALSE]
NoMa == [ma20 |-> 0, ma50 |-> 0, ma20_above_ma50 |-> FALSE]

\* What get_indicators did: the exception it raised, or the snapshot.
NoIndicators ==
    [status |-> "none", data_count |-> 0, ma |-> NoMa, trend |-> "", momentum |-> ""]

IndicatorsRaise(e) == [NoIndicators EXCEPT !.status = e]

AnalyzerIdle ==
    /\ klines = NoKlines
    /\ rsi_data = NoRsi
    /\ macd_data = NoMacd
    /\ indicators = NoIndicators

\* get_indicators for a symbol whose days' fetches and closes are klines.
get_indicators ==
    /\ indicators.status = "none"
    /\ klines # NoKlines
    /\ LET got == get_klines_range(klines.fetches)
           closes == Closes(klines.shape, got.count)
       IN  IF got.raised # ""
           THEN /\ indicators' = IndicatorsRaise("TechnicalAnalyzerError")
                /\ UNCHANGED <<rsi_data, macd_data>>
           ELSE IF got.count < MinBars
           THEN /\ indicators' = IndicatorsRaise("InsufficientDataError")
                /\ UNCHANGED <<rsi_data, macd_data>>
           ELSE \E prev_histogram \in Signs, macd_histogram \in Signs :
                    /\ rsi_data' = calculate_rsi(closes)
                    /\ macd_data' = calculate_macd(prev_histogram, macd_histogram)
                    /\ indicators' =
                        [status |-> "returned",
                         data_count |-> got.count,
                         ma |-> calculate_ma(closes),
                         trend |-> determine_trend(calculate_ma(closes)),
                         momentum |-> determine_momentum(rsi_data', macd_data')]
    /\ UNCHANGED klines
    /\ UNCHANGED outsideAnalyzer

\* _determine_momentum on its own, with the arguments in rsi_data and macd_data.
momentum_of ==
    /\ indicators.status = "none"
    /\ klines = NoKlines
    /\ indicators' = [NoIndicators EXCEPT !.status = "determined",
                                          !.momentum = determine_momentum(rsi_data, macd_data)]
    /\ UNCHANGED <<klines, rsi_data, macd_data>>
    /\ UNCHANGED outsideAnalyzer

AnalyzerNext == get_indicators \/ momentum_of

\* ------------------------------------------- GMOCoinClient: composite orders

\* The identifiers uuid4 can draw; two draws may coincide.
Uuids == {"DRY_A", "DRY_B"}

\* The arguments of place_ifdoco_order and place_ifd_order. The second
\* execution type is an argument of place_ifd_order only.
CompositeCalls ==
    [method : {"place_ifdoco_order", "place_ifd_order"},
     symbol : {"USD_JPY"},
     first_side : Sides,
     first_execution_type : {"LIMIT", "STOP"},
     first_size : {1, 2},
     first_price : {"135"},
     second_execution_type : {"LIMIT", "STOP"},
     second_size : {1, 2},
     second_limit_price : {"140"},
     second_stop_price : {"132"},
     client_order_id : {"", "c1"}]

NoCompositeCall ==
    [method |-> "", symbol |-> "", first_side |-> "", first_execution_type |-> "",
     first_size |-> 0, first_price |-> "", second_execution_type |-> "",
     second_size |-> 0, second_limit_price |-> "", second_stop_price |-> "",
     client_order_id |-> ""]

\* One order of the list a composite order returns.
CompositeOrder(c, root, id, order_type, side, execution_type, settle, size, price) ==
    [rootOrderId |-> root, orderId |-> id, symbol |-> c.symbol, orderType |-> order_type,
     side |-> side, executionType |-> execution_type, settleType |-> settle,
     size |-> size, price |-> price, status |-> "WAITING", dry_run |-> TRUE,
     clientOrderId |-> c.client_order_id]

\* _simulate_ifdoco_order as it would be if the exits kept the side of the entry.
simulate_ifdoco_order_same_side(c, ids) ==
    <<CompositeOrder(c, ids[1], ids[2], "IFDOCO", c.first_side, c.first_execution_type,
                     "OPEN", c.first_size, c.first_price),
      CompositeOrder(c, ids[1], ids[3], "IFDOCO", c.first_side, "LIMIT",
                     "CLOSE", c.second_size, c.second_limit_price),
      CompositeOrder(c, ids[1], ids[4], "IFDOCO", c.first_side, "STOP",
                     "CLOSE", c.second_size, c.second_stop_price)>>

\* _simulate_ifdoco_order: ids are the four identifiers drawn, the root first.
simulate_ifdoco_order(c, ids) ==
    LET second_side == IF c.first_side = "BUY" THEN "SELL" ELSE "BUY"
    IN  <<CompositeOrder(c, ids[1], ids[2], "IFDOCO", c.first_side, c.first_execution_type,
                         "OPEN", c.first_size, c.first_price),
          CompositeOrder(c, ids[1], ids[3], "IFDOCO", second_side, "LIMIT",
                         "CLOSE", c.second_size, c.second_limit_price),
          CompositeOrder(c, ids[1], ids[4], "IFDOCO", second_side, "STOP",
                         "CLOSE", c.second_size, c.second_stop_price)>>

\* _simulate_ifd_order: ids are the three identifiers drawn, the root first;
\* the exit is at second_price, held in second_limit_price here.
simulate_ifd_order(c, ids) ==
    LET second_side == IF c.first_side = "BUY" THEN "SELL" ELSE "BUY"
    IN  <<CompositeOrder(c, ids[1], ids[2], "IFD", c.first_side, c.first_execution_type,
                         "OPEN", c.first_size, c.first_price),
          CompositeOrder(c, ids[1], ids[3], "IFD", second_side, c.second_execution_type,
                         "CLOSE", c.second_size, c.second_limit_price)>>

CompositeIdle == composite = [call |-> NoCompositeCall, returned |-> FALSE, orders |-> <<>>]

\* place_ifdoco_order on a dry-run client.
place_ifdoco_order ==
    /\ dry_run
    /\ ~composite.returned
    /\ composite.call.method = "place_ifdoco_order"
    /\ \E ids \in [1..4 -> Uuids] :
          composite' = [composite EXCEPT !.returned = TRUE,
                                         !.orders = simulate_ifdoco_order(composite.call, ids)]
    /\ UNCHANGED coreVars
    /\ UNCHANGED <<limiter, analysis, collector, closer>>

\* place_ifd_order on a dry-run client.
place_ifd_order ==
    /\ dry_run
    /\ ~composite.returned
    /\ composite.call.method = "place_ifd_order"
    /\ \E ids \in [1..3 -> Uuids] :
          composite' = [composite EXCEPT !.returned = TRUE,
                                         !.orders = simulate_ifd_order(composite.call, ids)]
    /\ UNCHANGED coreVars
    /\ UNCHANGED <<limiter, analysis, collector, closer>>

CompositeNext == place_ifdoco_order \/ place_ifd_order

\* ------------------------------------------------ GMOCoinClient: rate limit

\* Time is counted in ticks of 1/6 s: _request_interval_get is 1 / 6 s and
\* _request_interval_post is 1 s.
request_interval_get == 1
request_interval_post == 6

\* time.time() when the client is constructed: the stamps start at 0.0 and
\* the clock is further from 0 than any interval.
StartTime == request_interval_post

Interval(m) == IF m = "POST" THEN request_interval_post ELSE request_interval_get

\* _wait_for_rate_limit as it would be with one stamp for both classes.
wait_for_rate_limit_one_stamp(m, now, last_get, last_post) ==
    LET stamp == IF last_get > last_post THEN last_get ELSE last_post
        elapsed == now - stamp
        wait_time == IF elapsed < Interval(m) THEN Interval(m) - elapsed ELSE 0
    IN  [now |-> now + wait_time,
         last_get |-> IF m = "POST" THEN last_get ELSE now + wait_time,
         last_post |-> IF m = "POST" THEN now + wait_time ELSE last_post]

\* _wait_for_rate_limit(method) called at `now`: the time it returns at, and
\* the two stamps it leaves.
wait_for_rate_limit(m, now, last_get, last_post) ==
    LET elapsed == now - (IF m = "POST" THEN last_post ELSE last_get)
        wait_time == IF elapsed < Interval(m) THEN Interval(m) - elapsed ELSE 0
    IN  [now |-> now + wait_time,
         last_get |-> IF m = "POST" THEN last_get ELSE now + wait_time,
         last_post |-> IF m = "POST" THEN now + wait_time ELSE last_post]

\* An attempt of _request: it was entered at `called` and its HTTP request
\* sent at `sent`; `earlier` is when the attempt of the same class before it
\* was sent, 0 when there was none.
NoAttempt == [method |-> "", called |-> 0, sent |-> 0, earlier |-> 0]

LimiterIdle ==
    limiter = [now |-> StartTime, last_get |-> 0, last_post |-> 0,
               sent_get |-> 0, sent_post |-> 0,
               last |-> NoAttempt, previous |-> NoAttempt]

\* One attempt of _request with the given HTTP method, a first attempt or a
\* retry: the wait for the rate limit, then the HTTP request. Preparing the
\* headers between the two takes no time on the scale of a tick.
request_sends(m) ==
    LET w == wait_for_rate_limit(m, limiter.now, limiter.last_get, limiter.last_post)
    IN  /\ w.now <= StartTime + MaxTicks
        /\ limiter' =
             [now |-> w.now, last_get |-> w.last_get, last_post |-> w.last_post,
              sent_get |-> IF m = "POST" THEN limiter.sent_get ELSE w.now,
              sent_post |-> IF m = "POST" THEN w.now ELSE limiter.sent_post,
              last |-> [method |-> m, called |-> limiter.now, sent |-> w.now,
                        earlier |-> IF m = "POST" THEN limiter.sent_post
                                    ELSE limiter.sent_get],
              previous |-> limiter.last]
        /\ UNCHANGED coreVars
        /\ UNCHANGED <<composite, analysis, collector, closer>>

\* Time passes: the response is awaited, a retry is slept for, or the client
\* is not called.
time_passes ==
    /\ limiter.now < StartTime + MaxTicks
    /\ limiter' = [limiter EXCEPT !.now = limiter.now + 1]
    /\ UNCHANGED coreVars
    /\ UNCHANGED <<composite, analysis, collector, closer>>

LimiterNext ==
    \/ \E m \in {"GET", "POST"} : request_sends(m)
    \/ time_passes

\* -------------------------------------------------------------- NewsAnalyzer

\* The numbers of a news item as the JSON has them, in tenths: 29 is 2.9.
RawSentiments == {-25, -20, 20, 30}
RawImpactsUsdJpy == {5, 10, 50, 60}
RawImpactsEurJpy == {50, 59}

\* The items of the parsed JSON array: a dict with every required field and
\* numbers ("dict"), a dict that lacks a required field ("missing"), a dict
\* with a sentiment int() cannot convert ("unconvertible"), and null, which
\* is no dict ("null").
NewsItems ==
    [shape : {"dict"}, sentiment : RawSentiments,
     usd_jpy : RawImpactsUsdJpy, eur_jpy : RawImpactsEurJpy]
    \cup [shape : {"missing", "unconvertible", "null"}, sentiment : {0},
          usd_jpy : {10}, eur_jpy : {50}]

\* int(x) of a number in tenths: the fraction is cut off, towards zero.
int(tenths) == IF tenths >= 0 THEN tenths \div 10 ELSE 0 - ((0 - tenths) \div 10)

\* _validate_and_convert_news_item: the NewsAnalysisResult, None (valid is
\* FALSE), or the TypeError of 'field not in news_item' on an item that is
\* not a container.
validate_and_convert_news_item(news_item) ==
    IF news_item.shape = "null" THEN [raised |-> "TypeError", valid |-> FALSE,
                                      sentiment |-> 0, impact_usd_jpy |-> 0,
                                      impact_eur_jpy |-> 0]
    ELSE LET result == [raised |-> "", valid |-> TRUE,
                        sentiment |-> int(news_item.sentiment),
                        impact_usd_jpy |-> int(news_item.usd_jpy),
                        impact_eur_jpy |-> int(news_item.eur_jpy)]
             none == [raised |-> "", valid |-> FALSE, sentiment |-> 0,
                      impact_usd_jpy |-> 0, impact_eur_jpy |-> 0]
         IN  IF news_item.shape \in {"missing", "unconvertible"} THEN none
             ELSE IF ~(-2 <= result.sentiment /\ result.sentiment <= 2) THEN none
             ELSE IF ~(1 <= result.impact_usd_jpy /\ result.impact_usd_jpy <= 5) THEN none
             ELSE IF ~(1 <= result.impact_eur_jpy /\ result.impact_eur_jpy <= 5) THEN none
             ELSE result

\* The loop of analyze_news over news_list: the results, each with the place
\* of its item in the list, and the exception that ended the loop.
RECURSIVE Converted(_, _)
Converted(news_list, k) ==
    IF k > Len(news_list) THEN [raised |-> "", results |-> <<>>]
    ELSE LET r == validate_and_convert_news_item(news_list[k])
             rest == Converted(news_list, k + 1)
         IN  IF r.raised # "" THEN [raised |-> r.raised, results |-> <<>>]
             ELSE IF rest.raised # "" THEN rest
             ELSE IF r.valid
             THEN [raised |-> "",
                   results |-> <<[item |-> k, sentiment |-> r.sentiment,
                                  impact_usd_jpy |-> r.impact_usd_jpy,
                                  impact_eur_jpy |-> r.impact_eur_jpy]>> \o rest.results]
             ELSE rest

AnalysisIdle == analysis = [items |-> <<>>, outcome |-> "none", results |-> <<>>]

\* analyze_news, from the parsed JSON array on.
analyze_news ==
    /\ analysis.outcome = "pending"
    /\ LET c == Converted(analysis.items, 1)
       IN  analysis' =
             IF c.raised # ""
             THEN [analysis EXCEPT !.outcome = "NewsAnalyzerError"]
             ELSE IF c.results = <<>>
             THEN [analysis EXCEPT !.outcome = "ValidationError"]
             ELSE [analysis EXCEPT !.outcome = "returned", !.results = c.results]
    /\ UNCHANGED coreVars
    /\ UNCHANGED <<composite, limiter, collector, closer>>

AnalysisNext == analyze_news

\* -------------------------------------------------------------- NewsCollector

\* The links of the entries of a feed; "" is an entry without a link.
Urls == {"a", "b"}
Dates == {1, 2}

\* The digests a news id can carry: the first 12 hex digits of a SHA-256, one
\* value here, so that the ids of different links of one date collide.
DigestSpace == 1

\* The feeds of RSS_FEEDS.
NumFeeds == 3

Code(url) == IF url = "a" THEN 0 ELSE 1

\* generate_news_id: news_<date>_<digest of the url and the time>.
generate_news_id(url, published_at) ==
    [date |-> published_at, digest |-> (Code(url) + published_at) % DigestSpace]

NewsIds == {generate_news_id(u, d) : u \in Urls, d \in Dates}

Entries == [link : Urls \cup {""}, published : Dates]

\* is_duplicate as it would be if it looked at the ids alone.
is_duplicate_ids_only(news_id, url, ids, urls) ==
    IF news_id \in ids
    THEN [result |-> TRUE, seen_ids |-> ids, seen_urls |-> urls]
    ELSE [result |-> FALSE, seen_ids |-> ids \cup {news_id},
          seen_urls |-> urls \cup {url}]

\* is_duplicate on the sets seen_ids and seen_urls: its result and the sets
\* it leaves.
is_duplicate(news_id, url, ids, urls) ==
    IF news_id \in ids \/ url \in urls
    THEN [result |-> TRUE, seen_ids |-> ids, seen_urls |-> urls]
    ELSE [result |-> FALSE, seen_ids |-> ids \cup {news_id},
          seen_urls |-> urls \cup {url}]

\* The loop of fetch_feed over the entries from the k-th on: the articles it
\* appends and the sets it leaves.
RECURSIVE Fetched(_, _, _, _)
Fetched(entries, k, ids, urls) ==
    IF k > Len(entries)
    THEN [articles |-> <<>>, seen_ids |-> ids, seen_urls |-> urls]
    ELSE LET url == entries[k].link
             news_id == generate_news_id(url, entries[k].published)
             d == is_duplicate(news_id, url, ids, urls)
         IN  IF url = "" THEN Fetched(entries, k + 1, ids, urls)
             ELSE IF d.result
             THEN Fetched(entries, k + 1, d.seen_ids, d.seen_urls)
             ELSE LET rest == Fetched(entries, k + 1, d.seen_ids, d.seen_urls)
                  IN  [rest EXCEPT !.articles =
                          <<[news_id |-> news_id, url |-> url]>> \o @]

\* The entries of the feeds of collect_all one after the other.
RECURSIVE Flat(_, _)
Flat(feeds, k) ==
    IF k > NumFeeds THEN <<>> ELSE feeds[k] \o Flat(feeds, k + 1)

NoId == [date |-> 0, digest |-> 0]

Range(f) == {f[k] : k \in 1..Len(f)}

\* A new NewsCollector. accepted are the pairs is_duplicate returned False
\* for, and returned the articles fetch_feed returned, since the last
\* reset_seen; ids and urls are the sets the last operation found.
CollectorIdle ==
    collector = [seen_ids |-> {}, seen_urls |-> {}, accepted |-> {},
                 returned |-> <<>>, op |-> "none", news_id |-> NoId,
                 url |-> "", result |-> FALSE, ids |-> {}, urls |-> {}]

\* collector.is_duplicate(news_id, url).
is_duplicate_called ==
    /\ \E news_id \in NewsIds, url \in Urls :
          LET d == is_duplicate(news_id, url, collector.seen_ids, collector.seen_urls)
          IN  collector' =
                [collector EXCEPT
                    !.seen_ids = d.seen_ids, !.seen_urls = d.seen_urls,
                    !.accepted = IF d.result THEN @
                                 ELSE @ \cup {[news_id |-> news_id, url |-> url]},
                    !.op = "is_duplicate", !.news_id = news_id, !.url = url,
                    !.result = d.result,
                    !.ids = collector.seen_ids, !.urls = collector.seen_urls]
    /\ UNCHANGED coreVars
    /\ UNCHANGED <<composite, limiter, analysis, closer>>

\* What fetching the entries leaves.
AfterFetch(op, entries) ==
    LET f == Fetched(entries, 1, collector.seen_ids, collector.seen_urls)
    IN  [collector EXCEPT
            !.seen_ids = f.seen_ids, !.seen_urls = f.seen_urls,
            !.accepted = @ \cup Range(f.articles),
            !.returned = @ \o f.articles,
            !.op = op, !.news_id = NoId, !.url = "", !.result = FALSE,
            !.ids = collector.seen_ids, !.urls = collector.seen_urls]

\* collector.fetch_feed(feed), the feed having up to MaxEntries entries.
fetch_feed ==
    /\ \E entries \in SeqsUpTo(Entries, MaxEntries) :
          collector' = AfterFetch("fetch_feed", entries)
    /\ UNCHANGED coreVars
    /\ UNCHANGED <<composite, limiter, analysis, closer>>

\* collector.collect_all(): fetch_feed on each feed of RSS_FEEDS in turn.
collect_all ==
    /\ \E feeds \in [1..NumFeeds -> SeqsUpTo(Entries, 1)] :
          collector' = AfterFetch("collect_all", Flat(feeds, 1))
    /\ UNCHANGED coreVars
    /\ UNCHANGED <<composite, limiter, analysis, closer>>

\* collector.reset_seen().
reset_seen ==
    /\ collector' =
          [collector EXCEPT
              !.seen_ids = {}, !.seen_urls = {}, !.accepted = {},
              !.returned = <<>>, !.op = "reset_seen", !.news_id = NoId,
              !.url = "", !.result = FALSE,
              !.ids = collector.seen_ids, !.urls = collector.seen_urls]
    /\ UNCHANGED coreVars
    /\ UNCHANGED <<composite, limiter, analysis, closer>>

CollectorNext ==
    \/ is_duplicate_called
    \/ fetch_feed
    \/ collect_all
    \/ reset_seen

\* ------------------------------------- TradeExecutor: closing the positions

\* The sizes of the broker's open positions; the broker gives them as strings
\* of whole numbers, which int() reads as they are.
PositionSizes == {1, 2}

\* The broker's open positions: up to MaxOpen, the k-th with positionId k.
OpenBooks ==
    {[k \in 1..Len(b) |-> [positionId |-> k, symbol |-> b[k].symbol,
                           side |-> b[k].side, size |-> b[k].size]] :
        b \in SeqsUpTo([symbol : Symbols, side : Sides, size : PositionSizes],
                       MaxOpen)}

\* GET /v1/openPositions?symbol=...: the positions of the symbol, in the
\* order of the book.
RECURSIVE open_positions(_, _, _)
open_positions(book, symbol, k) ==
    IF k > Len(book) THEN <<>>
    ELSE IF book[k].symbol = symbol
    THEN <<book[k]>> \o open_positions(book, symbol, k + 1)
    ELSE open_positions(book, symbol, k + 1)

\* One turn of the loop of close_positions_for_symbol as it would be if it
\* sent the position's own side.
close_one_same_side(pos, symbol, refused, dry) ==
    LET close_side == pos.side
        pos_size == pos.size
        pos_id == pos.positionId
        sent == [position_id |-> pos_id, symbol |-> symbol,
                    side |-> close_side, size |-> pos_size]
    IN  IF dry \/ pos_id \notin refused
        THEN [request |-> sent,
              result |-> TradeResult(TRUE, "CLOSE", symbol, pos_size, "order",
                                     "Closed position", dry)]
        ELSE [request |-> sent,
              result |-> TradeResult(FALSE, "CLOSE", symbol, pos_size, None,
                                     "Failed to close", dry)]

\* One turn of the loop of close_positions_for_symbol on a position that
\* passed the filter: the sent close_position is called with and the
\* result appended. The broker refuses the positions of refused; a dry-run
\* client simulates the close and asks no broker.
close_one(pos, symbol, refused, dry) ==
    LET close_side == IF pos.side = "BUY" THEN "SELL" ELSE "BUY"
        pos_size == pos.size
        pos_id == pos.positionId
        sent == [position_id |-> pos_id, symbol |-> symbol,
                    side |-> close_side, size |-> pos_size]
    IN  IF dry \/ pos_id \notin refused
        THEN [request |-> sent,
              result |-> TradeResult(TRUE, "CLOSE", symbol, pos_size, "order",
                                     "Closed position", dry)]
        ELSE [request |-> sent,
              result |-> TradeResult(FALSE, "CLOSE", symbol, pos_size, None,
                                     "Failed to close", dry)]

\* The loop of close_positions_for_symbol from the k-th position on; side ""
\* is no side given.
RECURSIVE closed_from(_, _, _, _, _, _)
closed_from(positions, k, symbol, side, refused, dry) ==
    IF k > Len(positions) THEN [requests |-> <<>>, results |-> <<>>]
    ELSE LET rest == closed_from(positions, k + 1, symbol, side, refused, dry)
             one == close_one(positions[k], symbol, refused, dry)
         IN  IF side # "" /\ positions[k].side # side THEN rest
             ELSE [requests |-> <<one.request>> \o rest.requests,
                   results |-> <<one.result>> \o rest.results]

NoClosing(book) ==
    [book |-> book, called |-> FALSE, symbol |-> "", side |-> "",
     fetched |-> FALSE, refused |-> {}, dry |-> FALSE,
     requests |-> <<>>, results |-> <<>>]

CloserIdle == closer = NoClosing(<<>>)

\* executor.close_positions_for_symbol(symbol, side): get_positions answers
\* or raises, and the broker refuses to close the positions of refused.
close_positions_for_symbol ==
    /\ ~closer.called
    /\ \E symbol \in Symbols, side \in Sides \cup {""}, got \in BOOLEAN,
          dry \in BOOLEAN :
       \E refused \in SUBSET {p \in 1..Len(closer.book) : closer.book[p].symbol = symbol} :
          LET c == closed_from(open_positions(closer.book, symbol, 1), 1,
                               symbol, side, refused, dry)
          IN  closer' =
                [closer EXCEPT
                    !.called = TRUE, !.symbol = symbol, !.side = side,
                    !.fetched = got, !.refused = refused, !.dry = dry,
                    !.requests = IF got THEN c.requests ELSE <<>>,
                    !.results = IF got THEN c.results
                                ELSE <<TradeResult(FALSE, "CLOSE", symbol, 0, None,
                                                   "Failed to get positions", dry)>>]
    /\ UNCHANGED coreVars
    /\ UNCHANGED <<composite, limiter, analysis, collector>>

CloserNext == close_positions_for_symbol

\* None of the calls that are followed one at a time was made.
ServicesIdle ==
    CompositeIdle /\ LimiterIdle /\ AnalysisIdle /\ CollectorIdle /\ CloserIdle

\* --------------------------------------------- the broker behind the client

\* No position is open.
BrokerIdle == open = [s \in Symbols |-> 0]

\* The number of open positions get_positions() lists.
TotalOpen == open["USD_JPY"] + open["EUR_JPY"]

\* What the broker's side does with one HTTP exchange of an order: http as in
\* HttpOutcomes, accepted whether the broker executed the order, which opens
\* one position. An order whose exchange timed out may have been executed.
BrokerExchanges ==
    {[http |-> "ok", accepted |-> TRUE], [http |-> "timeout", accepted |-> TRUE]}
    \cup {[http |-> x, accepted |-> FALSE] : x \in {"rejected", "429", "401", "timeout"}}

\* _request, the whole loop of a private call: the ways a call that stands at
\* r, with `accepted` of its requests executed by the broker, can end.
RECURSIVE request_runs(_, _)
request_runs(r, accepted) ==
    IF r.status # "running" THEN {[request |-> r, accepted |-> accepted]}
    ELSE UNION {LET n == request_attempt(r, TRUE, b.http)
                IN  request_runs(n, IF n.sent > r.sent /\ b.accepted
                                    THEN accepted + 1 ELSE accepted) :
                    b \in BrokerExchanges}

\* What a get_positions call does when n positions are listed: it returns
\* them, or raises what its _request call raises.
QueryReplies(n) ==
    {IF run.request.status = "returned" THEN [raised |-> "", count |-> n]
     ELSE IF run.request.status = "AuthenticationError" THEN [raised |-> "auth", count |-> 0]
     ELSE [raised |-> "api_error", count |-> 0] :
         run \in request_runs(request_start, 0)}

\* What place_order does, from the way its _request call ended.
OrderReply(status) ==
    IF status = "returned" THEN "ok"
    ELSE IF status = "AuthenticationError" THEN "auth"
    ELSE IF status = "APIError" THEN "order_error"
    ELSE "rate_limit"

\* execute_signals, one turn of the loop over config.symbols, against the
\* broker: the position queries list the open positions, and the requests of
\* place_order that the broker accepts open positions. request keeps the
\* _request call of the turn's place_order, if it made one.
execute_signals_at_broker ==
    /\ pc = "loop"
    /\ i <= Len(symbols)
    /\ \E sig \in SignalOutcomes :
       \E q1 \in (IF AsksPositions(sig) THEN QueryReplies(open[symbols[i]]) ELSE {NoQuery}) :
       \E q2 \in (IF AsksPositions(sig) /\ ~Raised(q1) THEN QueryReplies(TotalOpen)
                  ELSE {NoQuery}) :
       \E sv \in SaveReplies :
          IF AsksPositions(sig) /\ can_open_position(symbols[i], "", q1, q2).ok
          THEN \E run \in request_runs(request_start, 0) :
                  /\ LoopTurn(sig, q1, q2, OrderReply(run.request.status), sv)
                  /\ method' = [name |-> "place_order", order_id |-> ""]
                  /\ request' = run.request
                  /\ outcome' = surface("place_order", run.request.status)
                  /\ response' = IF run.request.status = "returned"
                                 THEN Response(FALSE, <<"ORDER">>) ELSE NoResponse
                  /\ open' = [open EXCEPT ![symbols[i]] = @ + run.accepted]
                  /\ UNCHANGED <<credentials, max_retries, retry_delay>>
          ELSE /\ LoopTurn(sig, q1, q2, Unused, sv)
               /\ method' = [name |-> "get_positions", order_id |-> ""]
               /\ request' = NotRequested
               /\ outcome' = "returned"
               /\ response' = NoResponse
               /\ UNCHANGED <<credentials, max_retries, retry_delay>>
               /\ UNCHANGED brokerVars

\* A position is closed at the broker.
position_closes(s) ==
    /\ open[s] > 0
    /\ open' = [open EXCEPT ![s] = @ - 1]
    /\ UNCHANGED <<riskVars, execVars, gatewayVars, signalVars, monitorVars, analyzerVars, serviceVars>>

BrokerNext ==
    \/ execute_signals
    \/ execute_signals_at_broker
    \/ execute_signals_return
    \/ \E s \in Symbols : position_closes(s)

\* ------------------------------------------------------------ specifications

\* The risk manager alone.
Init == RiskInit /\ ExecIdle /\ GatewayIdle /\ BrokerIdle /\ SignalIdle /\ MonitorIdle /\ AnalyzerIdle /\ ServicesIdle
Next == RiskNext
Spec == Init /\ [][Next]_vars

\* The trade executor alone.
InitExec == RiskIdle /\ ExecInit /\ GatewayIdle /\ BrokerIdle /\ SignalIdle /\ MonitorIdle /\ AnalyzerIdle /\ ServicesIdle
NextExec == ExecNext
SpecExec == InitExec /\ [][NextExec]_vars

\* One risk manager and one live trade executor over one symbol, in one process.
InitPipeline ==
    /\ RiskIdle
    /\ ExecInit
    /\ GatewayIdle
    /\ BrokerIdle /\ SignalIdle /\ MonitorIdle /\ AnalyzerIdle /\ ServicesIdle
    /\ symbols = <<"USD_JPY">>
    /\ min_confidence = 70
    /\ ~dry_run
    /\ ~db
NextPipeline == RiskNext \/ ExecNext
SpecPipeline == InitPipeline /\ [][NextPipeline]_vars

\* The gateway client alone.
InitGateway ==
    /\ RiskIdle
    /\ GatewayInit
    /\ BrokerIdle /\ SignalIdle /\ MonitorIdle /\ AnalyzerIdle /\ ServicesIdle
    /\ dry_run \in BOOLEAN
    /\ symbols = <<>>
    /\ min_confidence = 70
    /\ db = FALSE
    /\ pc = "idle"
    /\ i = 1
    /\ results = <<>>
    /\ orders = <<>>
    /\ saved = <<>>
    /\ last = NoTurn
NextGateway == GatewayNext
SpecGateway == InitGateway /\ [][NextGateway]_vars
\* _request is not abandoned between attempts.
SpecGatewayFair == SpecGateway /\ WF_vars(gateway_request)

\* One live trade executor running its cycles against the broker, through a
\* client with credentials.
InitBroker ==
    /\ RiskIdle
    /\ ExecInit
    /\ ~dry_run
    /\ ~db
    /\ min_confidence = 70
    /\ symbols \in {<<"USD_JPY">>, <<"USD_JPY", "EUR_JPY">>}
    /\ GatewayInit
    /\ credentials
    /\ max_retries \in {1, MaxRetries}
    /\ retry_delay = 1
    /\ BrokerIdle /\ SignalIdle /\ MonitorIdle /\ AnalyzerIdle /\ ServicesIdle
NextBroker == BrokerNext
SpecBroker == InitBroker /\ [][NextBroker]_vars

\* The rule engine's decision alone, on every technical state and news
\* summary of the input sets.
InitSignal ==
    /\ RiskIdle
    /\ ExecIdle
    /\ GatewayIdle
    /\ BrokerIdle
    /\ MonitorIdle /\ AnalyzerIdle /\ ServicesIdle
    /\ technical \in Technicals
    /\ \/ fetched = FetchDirect /\ news_summary \in NewsSummaries
       \/ fetched = FetchPending /\ news_summary = NoNews
    /\ decision = NoDecision
NextSignal == SignalNext
SpecSignal == InitSignal /\ [][NextSignal]_vars

\* The risk manager's check of one open position.
InitMonitor ==
    /\ RiskIdle
    /\ ExecIdle
    /\ GatewayIdle
    /\ BrokerIdle
    /\ SignalIdle
    /\ MonitorInit
    /\ AnalyzerIdle /\ ServicesIdle
NextMonitor == MonitorNext
SpecMonitor == InitMonitor /\ [][NextMonitor]_vars

\* The risk manager on the configurations and losses that bring an allowed
\* trade to every risk level.
InitRiskLevel ==
    /\ riskConfig \in LevelConfigs
    /\ daily_loss = 0
    /\ daily_trades = 0
    /\ consecutive_losses = 0
    /\ last_reset_date = {}
    /\ today = 1
    /\ call = [op |-> "__init__", assets |-> "none",
               before |-> [daily_loss |-> 0, daily_trades |-> 0,
                           consecutive_losses |-> 0],
               rollover |-> FALSE, result |-> NoResult]
    /\ recordedToday = [count |-> 0, loss |-> 0]
    /\ phase = "losing"
    /\ ExecIdle
    /\ GatewayIdle
    /\ BrokerIdle
    /\ SignalIdle
    /\ MonitorIdle /\ AnalyzerIdle /\ ServicesIdle
NextRiskLevel == RiskLevelNext
SpecRiskLevel == InitRiskLevel /\ [][NextRiskLevel]_vars

\* TechnicalAnalyzer: get_indicators over the days' fetches and the shapes of
\* the closes, and _determine_momentum over its arguments.
InitAnalyzer ==
    /\ RiskIdle
    /\ ExecIdle
    /\ GatewayIdle
    /\ BrokerIdle
    /\ SignalIdle
    /\ MonitorIdle
    /\ ServicesIdle
    /\ indicators = NoIndicators
    /\ \/ /\ klines \in [fetches : FetchSeqs(MaxDays), shape : Shapes]
          /\ rsi_data = NoRsi
          /\ macd_data = NoMacd
       \/ /\ klines = NoKlines
          /\ rsi_data \in RsiData
          /\ macd_data \in MacdData

NextAnalyzer == AnalyzerNext

SpecAnalyzer == InitAnalyzer /\ [][NextAnalyzer]_vars

\* The composite orders of a dry-run client.
InitComposite ==
    /\ RiskIdle
    /\ ExecIdle
    /\ GatewayIdle
    /\ BrokerIdle
    /\ SignalIdle
    /\ MonitorIdle
    /\ AnalyzerIdle
    /\ LimiterIdle
    /\ AnalysisIdle
    /\ CollectorIdle
    /\ CloserIdle
    /\ \E c \in CompositeCalls :
          composite = [call |-> c, returned |-> FALSE, orders |-> <<>>]

NextComposite == CompositeNext

SpecComposite == InitComposite /\ [][NextComposite]_vars

\* The attempts of one client against its two rate limits.
InitLimiter ==
    /\ RiskIdle
    /\ ExecIdle
    /\ GatewayIdle
    /\ BrokerIdle
    /\ SignalIdle
    /\ MonitorIdle
    /\ AnalyzerIdle
    /\ ServicesIdle

NextLimiter == LimiterNext

SpecLimiter == InitLimiter /\ [][NextLimiter]_vars

\* analyze_news on the arrays of up to MaxItems items.
InitAnalysis ==
    /\ RiskIdle
    /\ ExecIdle
    /\ GatewayIdle
    /\ BrokerIdle
    /\ SignalIdle
    /\ MonitorIdle
    /\ AnalyzerIdle
    /\ CompositeIdle
    /\ LimiterIdle
    /\ CollectorIdle
    /\ CloserIdle
    /\ \E l \in SeqsUpTo(NewsItems, MaxItems) :
          analysis = [items |-> l, outcome |-> "pending", results |-> <<>>]

NextAnalysis == AnalysisNext

SpecAnalysis == InitAnalysis /\ [][NextAnalysis]_vars

\* A NewsCollector, its is_duplicate, fetch_feed, collect_all and reset_seen.
InitCollector ==
    /\ RiskIdle
    /\ ExecIdle
    /\ GatewayIdle
    /\ BrokerIdle
    /\ SignalIdle
    /\ MonitorIdle
    /\ AnalyzerIdle
    /\ ServicesIdle

NextCollector == CollectorNext

SpecCollector == InitCollector /\ [][NextCollector]_vars

\* close_positions_for_symbol on the books of up to MaxOpen open positions.
InitCloser ==
    /\ RiskIdle
    /\ ExecIdle
    /\ GatewayIdle
    /\ BrokerIdle
    /\ SignalIdle
    /\ MonitorIdle
    /\ AnalyzerIdle
    /\ CompositeIdle
    /\ LimiterIdle
    /\ AnalysisIdle
    /\ CollectorIdle
    /\ \E book \in OpenBooks : closer = NoClosing(book)

NextCloser == CloserNext

SpecCloser == InitCloser /\ [][NextCloser]_vars

\* ------------------------------------------------------ claims: RiskManager

Checked == call.op = "check_trade_allowed"

StreakHit == consecutive_losses >= riskConfig.max_consecutive_losses
LossHit == daily_loss >= riskConfig.max_daily_loss
TradesHit == daily_trades >= riskConfig.max_daily_trades

\* C2: check_trade_allowed rejects for the first violated limit in the order
\* consecutive losses (CRITICAL), daily loss (CRITICAL), daily trades (HIGH),
\* whatever other limits are violated too, and it evaluates the margin only
\* when the three counter checks pass.
C2_CheckOrder ==
    Checked =>
        /\ StreakHit =>
               /\ ~call.result.can_trade
               /\ call.result.reason = "Consecutive losses limit reached"
               /\ call.result.risk_level = "CRITICAL"
        /\ (~StreakHit /\ LossHit) =>
               /\ ~call.result.can_trade
               /\ call.result.reason = "Daily loss limit reached"
               /\ call.result.risk_level = "CRITICAL"
        /\ (~StreakHit /\ ~LossHit /\ TradesHit) =>
               /\ ~call.result.can_trade
               /\ call.result.reason = "Daily trade limit reached"
               /\ call.result.risk_level = "HIGH"
        /\ call.result.details = "margin" => (~StreakHit /\ ~LossHit /\ ~TradesHit)

\* C2 witness: the streak limit and the trade limit are violated together and
\* the call answered with the streak rejection.
C2_Witness ==
    /\ Checked
    /\ StreakHit
    /\ TradesHit
    /\ call.result.reason = "Consecutive losses limit reached"

\* The first check_trade_allowed, without account assets, of a day that
\* follows a day on which max_daily_trades was exhausted.
FirstCheckAfterExhaustedDay ==
    /\ check_trade_allowed("USD_JPY", "BUY", 1, NoAssets)
    /\ last_reset_date # {}
    /\ last_reset_date # {today}
    /\ recordedToday.count = 0
    /\ daily_trades >= riskConfig.max_daily_trades

\* C3 as stated: the first check of day N+1 after max_daily_trades was
\* exhausted on day N always allows the trade, with the daily counters reset
\* and the streak carried over.
C3_Original ==
    [][FirstCheckAfterExhaustedDay =>
           /\ call'.result.can_trade
           /\ daily_loss' = 0
           /\ daily_trades' = 0
           /\ consecutive_losses' = consecutive_losses]_vars

\* C3 amended: that check resets the daily counters and carries the streak
\* over; it allows the trade iff the carried streak is below
\* max_consecutive_losses, and otherwise rejects for the streak with CRITICAL.
C3_Rollover ==
    [][FirstCheckAfterExhaustedDay =>
           /\ daily_loss' = 0
           /\ daily_trades' = 0
           /\ consecutive_losses' = consecutive_losses
           /\ call'.result.can_trade =
                  (consecutive_losses < riskConfig.max_consecutive_losses)
           /\ ~call'.result.can_trade =>
                  /\ call'.result.reason = "Consecutive losses limit reached"
                  /\ call'.result.risk_level = "CRITICAL"]_vars

\* C3 witness: a check without assets on a later day found the trade count
\* exhausted by an earlier day's results, reset it and allowed the trade with
\* a losing streak carried over.
C3_Witness ==
    /\ Checked
    /\ call.assets = "none"
    /\ call.rollover
    /\ today > 1
    /\ recordedToday.count = 0
    /\ call.before.daily_trades >= riskConfig.max_daily_trades
    /\ call.result.can_trade
    /\ daily_trades = 0
    /\ consecutive_losses >= 1

\* C4: check_trade_allowed changes the risk state only by the daily rollover:
\* nothing when today is last_reset_date; otherwise daily_loss and
\* daily_trades become 0, last_reset_date today, consecutive_losses stays.
C4_CheckFrame ==
    [][CheckStep =>
           IF last_reset_date = {today}
           THEN UNCHANGED <<daily_loss, daily_trades, consecutive_losses, last_reset_date>>
           ELSE /\ daily_loss' = 0
                /\ daily_trades' = 0
                /\ last_reset_date' = {today}
                /\ consecutive_losses' = consecutive_losses]_vars

\* C4 witness: a check rolled the day over, clearing a non-zero daily loss and
\* trade count and keeping a non-zero streak.
C4_Witness ==
    /\ Checked
    /\ call.rollover
    /\ call.before.daily_trades >= 1
    /\ call.before.daily_loss >= 1
    /\ daily_trades = 0
    /\ daily_loss = 0
    /\ consecutive_losses >= 1
    /\ last_reset_date = {today}

\* C5: what a call that applies the rollover observes as daily_trade_count
\* and daily_loss is the count and the summed losses of the results recorded
\* on that day.
C5_DailyCountersExact ==
    (/\ call.op \in {"check_trade_allowed", "get_risk_summary"}
     /\ last_reset_date = {today}) =>
        /\ daily_trades = recordedToday.count
        /\ daily_loss = recordedToday.loss

InStreakScenario ==
    \/ phase \in {"won", "lost"}
    \/ phase = "losing" /\ consecutive_losses <= riskConfig.max_consecutive_losses - 1

\* C6 as stated: after max_consecutive_losses - 1 losses from a zero streak a
\* win leaves the streak at 0, a following loss at 1, and no check anywhere
\* in that sequence is rejected for the streak.
C6_Original ==
    /\ phase = "won" => consecutive_losses = 0
    /\ phase = "lost" => consecutive_losses = 1
    /\ (Checked /\ InStreakScenario) =>
           call.result.reason # "Consecutive losses limit reached"

\* C6 amended: the win leaves the streak at 0 and the following loss at 1; a
\* check in that sequence is rejected for the streak only after the final
\* loss and only when max_consecutive_losses is 1, where it always is.
C6_StreakClearing ==
    /\ phase = "won" => consecutive_losses = 0
    /\ phase = "lost" => consecutive_losses = 1
    /\ (Checked /\ InStreakScenario) =>
           ((call.result.reason = "Consecutive losses limit reached")
                <=> (phase = "lost" /\ riskConfig.max_consecutive_losses = 1))

\* C6 witness: with a limit of at least 2, a check made after the loss that
\* followed the streak-clearing win.
C6_Witness ==
    /\ Checked
    /\ phase = "lost"
    /\ riskConfig.max_consecutive_losses >= 2
    /\ consecutive_losses = 1

\* C7: the three counter limits are inclusive: at exactly max_daily_loss or
\* exactly max_consecutive_losses the call rejects with CRITICAL, at exactly
\* max_daily_trades (the other two not reached) with HIGH; with all three
\* counters below their limits only the margin can reject.
C7_InclusiveLimits ==
    Checked =>
        /\ daily_loss = riskConfig.max_daily_loss =>
               (~call.result.can_trade /\ call.result.risk_level = "CRITICAL")
        /\ consecutive_losses = riskConfig.max_consecutive_losses =>
               (~call.result.can_trade /\ call.result.risk_level = "CRITICAL")
        /\ (daily_trades = riskConfig.max_daily_trades /\ ~StreakHit /\ ~LossHit) =>
               (~call.result.can_trade /\ call.result.risk_level = "HIGH")
        /\ (~StreakHit /\ ~LossHit /\ ~TradesHit) =>
               (call.result.can_trade \/ call.result.reason = "Margin ratio too low")

\* C7 witness: daily_loss is exactly max_daily_loss, the other limits are not
\* reached, and the check rejected for the daily loss.
C7_Witness ==
    /\ Checked
    /\ daily_loss = riskConfig.max_daily_loss
    /\ ~StreakHit
    /\ ~TradesHit
    /\ call.result.reason = "Daily loss limit reached"

\* C8: record_trade_result adds 1 to daily_trades; a negative profit_loss adds
\* its amount to daily_loss and 1 to consecutive_losses; any other (0
\* included) leaves daily_loss and zeroes consecutive_losses; success plays
\* no part.
C8_RecordEffect ==
    [][\A pl \in ProfitLosses, ok \in BOOLEAN :
           record_trade_result(pl, ok) =>
               /\ daily_trades' = daily_trades + 1
               /\ last_reset_date' = last_reset_date
               /\ IF pl < 0
                  THEN /\ daily_loss' = daily_loss - pl
                       /\ consecutive_losses' = consecutive_losses + 1
                  ELSE /\ daily_loss' = daily_loss
                       /\ consecutive_losses' = 0]_vars

\* C8 witness: a result that lost nothing was recorded on a losing streak: it
\* counted as a trade, left daily_loss and cleared the streak.
C8_Witness ==
    /\ call.op = "record_trade_result"
    /\ call.before.consecutive_losses >= 1
    /\ consecutive_losses = 0
    /\ daily_loss = call.before.daily_loss
    /\ daily_loss >= 1
    /\ daily_trades = call.before.daily_trades + 1

\* ---------------------------------------------------- claims: TradeExecutor

\* The risk manager would reject a trade now.
GateRejects ==
    LET r == reset_daily_stats_if_needed(daily_loss, daily_trades, last_reset_date, today)
    IN  ~CheckResult(riskConfig, r.daily_loss, r.daily_trades,
                     consecutive_losses, NoAssets).can_trade

\* C1: place_order is invoked only after check_trade_allowed was asked and
\* answered can_trade = true, and never in a state where the risk manager
\* would reject.
C1_RiskGated ==
    [][Len(orders') > Len(orders) =>
           /\ call'.op = "check_trade_allowed"
           /\ call'.result.can_trade
           /\ ~GateRejects']_vars

ResultsMatchSymbols ==
    \A k \in 1..Len(results) : k <= Len(symbols) /\ results[k].symbol = symbols[k]

\* C9: execute_signals raises nothing and returns one TradeResult per
\* configured symbol, in configuration order and carrying that symbol,
\* whatever happened to each symbol: while it runs, every symbol it has
\* passed has its result.
C9_OneResultPerSymbol ==
    /\ pc # "raised"
    /\ ResultsMatchSymbols
    /\ pc = "loop" => Len(results) = i - 1
    /\ pc = "done" => Len(results) = Len(symbols)

\* C9 witness: the cycle returned two results, the first a converted
\* exception and the second an order that was placed after it.
C9_Witness ==
    /\ pc = "done"
    /\ Len(results) = 2
    /\ ~results[1].success
    /\ results[1].reason = "Error"
    /\ results[2].success
    /\ results[2].action \in {"BUY", "SELL"}
    /\ Len(orders) >= 1

FailureReasons ==
    {"Error", "Failed to generate signal", "Order failed",
     "Authentication required", "Position check failed"}

\* C10: the result of a symbol whose processing failed (signal generation
\* raised, a gateway call raised an authentication error, a position query
\* failed, the order was rejected) has success = false, action SKIP or the
\* attempted BUY/SELL, and no order_id.
C10_FailuresReported ==
    \A k \in 1..Len(results) :
        results[k].reason \in FailureReasons =>
            /\ ~results[k].success
            /\ results[k].action \in {"SKIP", "BUY", "SELL"}
            /\ results[k].order_id = None

\* -------------------------------------------------- claims: GMOCoinClient

MutatingCalls ==
    {"place_order", "cancel_order", "close_position", "close_all_positions",
     "place_ifdoco_order", "place_ifd_order"}

\* The method's _request call was made and is over.
RequestOver == request.status \notin {"none", "running"}

\* C13: on a dry-run client a mutating call sends no HTTP request, starts no
\* attempt of _request and returns, with or without credentials.
C13_DryRunNoHttp ==
    (dry_run /\ method.name \in MutatingCalls) =>
        /\ request.sent = 0
        /\ request.attempt = 0
        /\ request.exchanges = <<>>
        /\ outcome = "returned"

\* C13 witness: a dry-run client without credentials returned from
\* cancel_order without a request.
C13_Witness ==
    /\ dry_run
    /\ ~credentials
    /\ method.name = "cancel_order"
    /\ outcome = "returned"
    /\ request.sent = 0

\* C14: on a dry-run client the response of every mutating call carries the
\* dry-run marker and at least one order identifier, each with the DRY_
\* prefix.
C14_DryRunMarked ==
    (dry_run /\ method.name \in MutatingCalls /\ outcome = "returned") =>
        /\ response.dry_run
        /\ Len(response.ids) >= 1
        /\ \A k \in 1..Len(response.ids) : response.ids[k] = "DRY_"

\* A 401 response ends _request at once with AuthenticationError, which the
\* method passes on as it is.
Fatal401 ==
    \A k \in 1..Len(request.exchanges) :
        request.exchanges[k] = "401" =>
            /\ k = Len(request.exchanges)
            /\ request.status = "AuthenticationError"
            /\ outcome = "AuthenticationError"

C16_RateLimitRetried ==
    RequestOver =>
        /\ \A k \in 1..Len(request.exchanges) :
               (request.exchanges[k] = "429" /\ k < max_retries) =>
                   /\ Len(request.exchanges) > k
                   /\ Len(request.waits) >= k
                   /\ request.waits[k] = retry_delay * (2 ^ (k - 1))
        /\ (Len(request.exchanges) = max_retries /\ max_retries >= 1
            /\ \A k \in 1..max_retries : request.exchanges[k] = "429") =>
               request.status = "APIError"

\* What holds of _request at every point of a call.
RetryBounded ==
    /\ request.sent <= max_retries
    /\ Len(request.exchanges) = request.sent
    /\ \A k \in 1..Len(request.exchanges) :
           (request.exchanges[k] \in RequestExceptions /\ k < max_retries) =>
               /\ Len(request.waits) >= k
               /\ request.waits[k] = retry_delay * k
               /\ Len(request.exchanges) = k =>
                      (request.status = "running" /\ request.attempt = k + 1)
    /\ (request.sent >= 1 /\ request.exchanges[request.sent] = "ok") =>
           (request.status = "returned" /\ outcome = "returned")
    /\ (request.sent = max_retries /\ max_retries >= 1
        /\ \A k \in 1..max_retries : request.exchanges[k] \in RequestExceptions) =>
           request.status = "APIError"

\* C17: for every max_retries >= 0 and whatever the attempts meet, _request
\* ends, having sent at most max_retries HTTP requests; a network failure on
\* attempt k < max_retries is followed by a wait of retry_delay * k and
\* attempt k + 1; a successful attempt returns; max_retries network failures
\* raise APIError.
C17_BoundedRetries ==
    /\ []RetryBounded
    /\ (outcome = "") ~> (outcome # "")

\* C17 witness: with max_retries = 3 and retry_delay = 2 the third attempt
\* succeeded after a timeout and a 5xx, with waits of 2 and 4.
C17_Witness ==
    /\ max_retries = 3
    /\ retry_delay = 2
    /\ request.exchanges = <<"timeout", "5xx", "ok">>
    /\ request.waits = <<2, 4>>
    /\ outcome = "returned"

\* The result of the latest turn of the loop.
LastResult == results[Len(results)]

\* C12: a signal whose confidence is below min_confidence gives HOLD with
\* size 0 and the threshold as reason, and neither a position query nor an
\* order call is made, whatever its direction; a confidence at or above
\* min_confidence is not blocked by the threshold.
C12_ConfidenceGate ==
    last # NoTurn =>
        /\ last.gate = "blocked" =>
               /\ LastResult.action = "HOLD"
               /\ LastResult.size = 0
               /\ LastResult.reason = "Confidence too low"
               /\ last.asked = 0
               /\ last.placed = 0
        /\ last.gate = "passed" => LastResult.reason # "Confidence too low"

\* C12 witness: on a live client a buy signal was blocked by the threshold
\* and no gateway call was made.
C12_Witness ==
    /\ last.gate = "blocked"
    /\ last.signal = "buy"
    /\ ~dry_run
    /\ LastResult.action = "HOLD"
    /\ last.asked = 0
    /\ Len(orders) = 0

\* ------------------------------------------- claims: executor at the broker

\* On a live client place_order is called only in a turn whose two position
\* queries returned and reported fewer positions than the two limits.
OrdersOnlyBelowLimits ==
    (~dry_run /\ last.placed >= 1) => (last.asked = 2 /\ last.below)

\* The most HTTP requests one place_order call sends.
MostRequests == IF max_retries >= 1 THEN max_retries ELSE 1

\* C11 as stated: on a live client an order is placed only after position
\* queries that reported fewer positions than both limits, and so, from no
\* open position, the positions of a symbol never exceed
\* max_positions_per_symbol and all positions never exceed
\* max_total_positions.
C11_Original ==
    /\ OrdersOnlyBelowLimits
    /\ \A s \in Symbols : open[s] <= max_positions_per_symbol
    /\ TotalOpen <= max_total_positions

\* C11 amended: an order is placed only after position queries that reported
\* fewer positions than both limits; one place_order call sends up to
\* max_retries requests, each of which the broker may have executed, so the
\* positions of a symbol stay within max_positions_per_symbol - 1 +
\* max_retries and all positions within max_total_positions - 1 +
\* max_retries, which are the limits themselves when max_retries <= 1.
C11_PositionLimits ==
    /\ OrdersOnlyBelowLimits
    /\ \A s \in Symbols : open[s] <= max_positions_per_symbol - 1 + MostRequests
    /\ TotalOpen <= max_total_positions - 1 + MostRequests

\* C11 witness: with max_retries = 1 an order was placed that brought the
\* symbol and the total to their limits.
C11_Witness ==
    /\ max_retries = 1
    /\ last.placed = 1
    /\ last.below
    /\ open["USD_JPY"] = max_positions_per_symbol
    /\ TotalOpen = max_total_positions

BuyHolds(b, s) == b >= 4 /\ s <= 1
SellHolds(b, s) == s >= 4 /\ b <= 1

\* C19: on every pair of scores the decision is buy iff buy_score >= 4 and
\* sell_score <= 1, sell iff sell_score >= 4 and buy_score <= 1, and hold
\* otherwise; (3, 0) and (4, 2) give hold; the buy and the sell condition
\* never hold together; and every decision _integrate_signals returns is the
\* one of the scores it added up.
C19_Decision ==
    /\ \A b \in Scores, s \in Scores :
           /\ integrate_signals(b, s).signal = "buy" <=> BuyHolds(b, s)
           /\ integrate_signals(b, s).signal = "sell" <=> SellHolds(b, s)
           /\ integrate_signals(b, s).signal = "hold" <=>
                  (~BuyHolds(b, s) /\ ~SellHolds(b, s))
           /\ ~(BuyHolds(b, s) /\ SellHolds(b, s))
    /\ integrate_signals(3, 0).signal = "hold"
    /\ integrate_signals(4, 2).signal = "hold"
    /\ decision.made =>
           /\ decision.signal \in {"buy", "sell", "hold"}
           /\ decision.signal = "buy" <=> BuyHolds(decision.buy_score, decision.sell_score)
           /\ decision.signal = "sell" <=> SellHolds(decision.buy_score, decision.sell_score)

\* C19 witness: an upward trend with bullish momentum, a slightly positive
\* news average and an overbought RSI score (4, 2), and the decision is hold.
C19_Witness ==
    /\ decision.made
    /\ decision.buy_score = 4
    /\ decision.sell_score = 2
    /\ decision.signal = "hold"

\* The claim's terms of the two scores.
TrendTerm(dir, mom) ==
    IF technical.trend = dir /\ technical.momentum = mom THEN 3
    ELSE IF technical.trend = dir THEN 1 ELSE 0
RsiTerm(flag) == IF flag THEN 2 ELSE 0
BuyNewsTerm ==
    IF news_summary.count > 0 /\ news_summary.avg_sentiment > 50
       /\ news_summary.avg_impact >= 300 THEN 3
    ELSE IF news_summary.count > 0 /\ news_summary.avg_sentiment > 0 THEN 1
    ELSE 0
SellNewsTerm ==
    IF news_summary.count > 0 /\ news_summary.avg_sentiment < -50
       /\ news_summary.avg_impact >= 300 THEN 3
    ELSE IF news_summary.count > 0 /\ news_summary.avg_sentiment < 0 THEN 1
    ELSE 0

\* C20: buy_score is 3 for an upward trend with bullish momentum, else 1 for
\* an upward trend, plus 2 if oversold, plus 3 for news with an average
\* sentiment above 0.5 and an average impact of at least 3, else 1 for news
\* with an average sentiment above 0; sell_score is the mirror image on a
\* downward trend, bearish momentum, overbought, and sentiment below -0.5 and
\* below 0. The sentiment thresholds are strict, the impact threshold is
\* inclusive.
C20_Scores ==
    decision.made =>
        /\ decision.buy_score =
               TrendTerm("up", "bullish") + RsiTerm(technical.oversold) + BuyNewsTerm
        /\ decision.sell_score =
               TrendTerm("down", "bearish") + RsiTerm(technical.overbought) + SellNewsTerm
        /\ (news_summary.avg_sentiment = 50 /\ news_summary.count > 0)
               => decision.buy_score < 3 + RsiTerm(technical.oversold) + 3
        /\ (news_summary.avg_sentiment = -50 /\ news_summary.count > 0)
               => decision.sell_score < 3 + RsiTerm(technical.overbought) + 3

\* C20 witness: an average sentiment of exactly 0.5 at impact 3 counts 1, so
\* an upward trend with bullish momentum scores 3 + 1.
C20_Witness ==
    /\ decision.made
    /\ technical.trend = "up"
    /\ technical.momentum = "bullish"
    /\ ~technical.oversold
    /\ news_summary.count > 0
    /\ news_summary.avg_sentiment = 50
    /\ news_summary.avg_impact = 300
    /\ decision.buy_score = 4
    /\ decision.sell_score = 0

\* The scenario of C21: an upward trend with bullish momentum and the news
\* summary {count: 2, avg_sentiment: 1.0, avg_impact: 4}, decided.
BullishScenario ==
    /\ decision.made
    /\ technical.trend = "up"
    /\ technical.momentum = "bullish"
    /\ news_summary.count = 2
    /\ news_summary.avg_sentiment = 100
    /\ news_summary.avg_impact = 400

\* C21 as stated: in the scenario, whatever the RSI flags, the signal is buy
\* with confidence 1.0.
C21_Original ==
    BullishScenario => (decision.signal = "buy" /\ decision.confidence = 100)

\* C21 amended: in the scenario the signal is buy with confidence 1.0 unless
\* the RSI is overbought; an overbought RSI makes sell_score 2 and the signal
\* hold with confidence 0.5.
C21_BullishScenario ==
    BullishScenario =>
        IF technical.overbought
        THEN decision.sell_score = 2 /\ decision.signal = "hold" /\ decision.confidence = 50
        ELSE decision.sell_score = 0 /\ decision.signal = "buy" /\ decision.confidence = 100

\* C21 witness: the scenario decided as buy with confidence 1.0 on buy_score
\* 3 + 3, the RSI flags unset.
C21_Witness ==
    /\ BullishScenario
    /\ ~technical.overbought
    /\ ~technical.oversold
    /\ decision.buy_score = 6
    /\ decision.signal = "buy"
    /\ decision.confidence = 100

\* min(0.3 + 0.15 x score, 1.0), in hundredths.
Capped(score) == IF 30 + 15 * score <= 100 THEN 30 + 15 * score ELSE 100

\* C22: the confidence of a generated signal is min(0.3 + 0.15 x buy_score,
\* 1.0) for a buy, min(0.3 + 0.15 x sell_score, 1.0) for a sell and 0.5 for a
\* hold, and lies in [0, 1].
C22_Confidence ==
    decision.made =>
        /\ decision.signal = "buy" => decision.confidence = Capped(decision.buy_score)
        /\ decision.signal = "sell" => decision.confidence = Capped(decision.sell_score)
        /\ decision.signal = "hold" => decision.confidence = 50
        /\ decision.confidence >= 0
        /\ decision.confidence <= 100

\* C22 witness: a sell decided on sell_score 4 against buy_score 0, with
\* confidence 0.9.
C22_Witness ==
    /\ decision.made
    /\ decision.signal = "sell"
    /\ decision.sell_score = 4
    /\ decision.buy_score = 0
    /\ decision.confidence = 90

\* generate_signal ran without news: the query raised, or returned nothing.
NoNewsAvailable ==
    \/ fetched.state = "raised"
    \/ fetched.state = "returned" /\ fetched.docs = <<>>

\* C23: when the news query raises or returns nothing, the summary has count
\* 0 and zero aggregates, news adds nothing to either score, and
\* generate_signal returns the signal that the technical snapshot alone
\* decides.
C23_NoNews ==
    NoNewsAvailable =>
        /\ news_summary.count = 0
        /\ news_summary.avg_sentiment = 0
        /\ news_summary.avg_impact = 0
        /\ news_summary.bullish_count = 0
        /\ news_summary.bearish_count = 0
        /\ news_summary.neutral_count = 0
        /\ decision.made
        /\ decision.buy_score = TrendTerm("up", "bullish") + RsiTerm(technical.oversold)
        /\ decision.sell_score = TrendTerm("down", "bearish") + RsiTerm(technical.overbought)
        /\ decision.signal \in {"buy", "sell", "hold"}
        /\ decision.signal = "buy" <=>
               (technical.trend = "up" /\ technical.momentum = "bullish"
                /\ technical.oversold)
        /\ decision.signal = "sell" <=>
               (technical.trend = "down" /\ technical.momentum = "bearish"
                /\ technical.overbought)

\* C23 witness: the news query raised, and generate_signal returned a buy on
\* an upward trend with bullish momentum and an oversold RSI.
C23_Witness ==
    /\ fetched.state = "raised"
    /\ news_summary.count = 0
    /\ decision.made
    /\ decision.buy_score = 5
    /\ decision.signal = "buy"

\* ------------------------------------------- claims: RiskManager, levels

\* balance / margin x 100 < min_margin_ratio, the ratio being 100 when margin
\* is 0.
RatioBelowMinimum(a) ==
    IF a.margin = 0 THEN 100 < min_margin_ratio
    ELSE a.balance * 100 < min_margin_ratio * a.margin

\* C26: a check_trade_allowed call that is given account assets with balance
\* and margin, and whose three counter checks pass, rejects with CRITICAL for
\* the margin ratio iff balance / margin x 100 (100 when margin is 0) is
\* strictly below min_margin_ratio; a ratio equal to it is allowed.
C26_MarginGate ==
    [][\A a \in AccountAssets :
           (/\ check_trade_allowed("USD_JPY", "BUY", 1, a)
            /\ a.kind = "dict"
            /\ consecutive_losses' < riskConfig.max_consecutive_losses
            /\ daily_loss' < riskConfig.max_daily_loss
            /\ daily_trades' < riskConfig.max_daily_trades)
           => IF RatioBelowMinimum(a)
              THEN /\ ~call'.result.can_trade
                   /\ call'.result.risk_level = "CRITICAL"
                   /\ call'.result.reason = "Margin ratio too low"
              ELSE /\ call'.result.can_trade
                   /\ call'.result.risk_level # "CRITICAL"]_vars

\* C26 witness: a check with account assets passed the three counter checks
\* and rejected for the margin ratio.
C26_Witness ==
    /\ Checked
    /\ call.assets = "dict"
    /\ ~StreakHit
    /\ ~LossHit
    /\ ~TradesHit
    /\ ~call.result.can_trade
    /\ call.result.risk_level = "CRITICAL"
    /\ call.result.reason = "Margin ratio too low"

\* max(daily_loss / max_daily_loss, daily_trades / max_daily_trades,
\* consecutive_losses / max_consecutive_losses) >= tenths / 10
MaxRatioAtLeast(tenths) ==
    \/ 10 * daily_loss >= tenths * riskConfig.max_daily_loss
    \/ 10 * daily_trades >= tenths * riskConfig.max_daily_trades
    \/ 10 * consecutive_losses >= tenths * riskConfig.max_consecutive_losses

\* C27: an allowed check has risk_level HIGH iff the largest of the three
\* ratios is >= 0.8, MEDIUM iff it is >= 0.5 and < 0.8, LOW otherwise, and
\* never CRITICAL; a rejected check never has LOW or MEDIUM.
C27_RiskLevel ==
    Checked =>
        /\ call.result.can_trade =>
               /\ call.result.risk_level = "HIGH" <=> MaxRatioAtLeast(8)
               /\ call.result.risk_level = "MEDIUM" <=>
                      (MaxRatioAtLeast(5) /\ ~MaxRatioAtLeast(8))
               /\ call.result.risk_level = "LOW" <=> ~MaxRatioAtLeast(5)
               /\ call.result.risk_level # "CRITICAL"
        /\ ~call.result.can_trade => call.result.risk_level \in {"HIGH", "CRITICAL"}

\* C27 witness: a trade was allowed at risk level HIGH, the daily loss being
\* at least 0.8 of its limit and below it.
C27_Witness ==
    /\ Checked
    /\ call.result.can_trade
    /\ call.result.risk_level = "HIGH"
    /\ 10 * daily_loss >= 8 * riskConfig.max_daily_loss
    /\ daily_loss < riskConfig.max_daily_loss

\* ------------------------------------------ claims: RiskManager, positions

\* should_close_position was called on a position with a price and a side.
ClosingChecked == closing.called /\ position.price # 0 /\ position.side # ""

\* The pip of the position's symbol, in units of 0.0001.
Pip == IF position.symbol = "USD_JPY" THEN 100 ELSE 1
\* The stop and the target of the position.
Stop ==
    IF position.side = "BUY" THEN position.price - stop_loss_pips * Pip
    ELSE position.price + stop_loss_pips * Pip
Target ==
    IF position.side = "BUY" THEN position.price + take_profit_pips * Pip
    ELSE position.price - take_profit_pips * Pip

StopReached ==
    IF position.side = "BUY" THEN current_price <= Stop ELSE current_price >= Stop
TargetReached ==
    IF position.side = "BUY" THEN current_price >= Target ELSE current_price <= Target

\* C24: a position whose current price is strictly inside its band and whose
\* age is at least max_position_hours is to be closed, with the position-age
\* reason, whatever the form of its timestamp.
C24_AgedPositionCloses ==
    (/\ ClosingChecked
     /\ ~StopReached
     /\ ~TargetReached
     /\ position.timestamp # ""
     /\ position.age >= max_position_hours)
    => (closing.close /\ closing.reason = "Position age exceeded")

\* C25: with the pip 0.01 for a symbol ending in _JPY and 0.0001 otherwise,
\* should_close_position on a position without timestamp returns true iff
\* the current price has reached the stop or the target, both inclusive, with
\* the stop-loss reason when the stop is reached and the take-profit reason
\* otherwise, and false with "Position OK" when neither is reached.
C25_StopAndTarget ==
    (ClosingChecked /\ position.timestamp = "") =>
        /\ closing.close <=> (StopReached \/ TargetReached)
        /\ StopReached => closing.reason = "Stop loss triggered"
        /\ (TargetReached /\ ~StopReached) => closing.reason = "Take profit triggered"
        /\ ~closing.close => closing.reason = "Position OK"

\* C25 witness: a USD_JPY buy without timestamp whose current price is
\* exactly stop_loss_pips x 0.01 below the entry is closed for its stop.
C25_Witness ==
    /\ ClosingChecked
    /\ position.timestamp = ""
    /\ position.side = "BUY"
    /\ position.symbol = "USD_JPY"
    /\ current_price = position.price - stop_loss_pips * 100
    /\ closing.close
    /\ closing.reason = "Stop loss triggered"

\* ------------------------------------------------ claims: TechnicalAnalyzer

MomentumDetermined == indicators.status \in {"returned", "determined"}

BullishCondition ==
    macd_data.bullish_crossover \/ (rsi_data.oversold /\ macd_data.macd_histogram > 0)

BearishCondition ==
    macd_data.bearish_crossover \/ (rsi_data.overbought /\ macd_data.macd_histogram < 0)

\* C28: for every combination of bullish_crossover, bearish_crossover,
\* oversold, overbought and the sign of the histogram, the momentum is bullish
\* exactly when the bullish condition holds, bearish exactly when the bearish
\* condition holds and the bullish one does not, and neutral exactly when
\* neither holds; when both conditions hold the momentum is bullish.
C28_Momentum ==
    MomentumDetermined =>
        /\ indicators.momentum \in {"bullish", "bearish", "neutral"}
        /\ (indicators.momentum = "bullish") <=> BullishCondition
        /\ (indicators.momentum = "bearish") <=> (BearishCondition /\ ~BullishCondition)
        /\ (indicators.momentum = "neutral") <=> (~BearishCondition /\ ~BullishCondition)

\* Both conditions hold, and the momentum is bullish.
C28_Witness ==
    /\ MomentumDetermined
    /\ BullishCondition
    /\ BearishCondition
    /\ indicators.momentum = "bullish"

\* C29: get_indicators on a series of fewer than 50 bars, the bars of the days
\* whose fetch failed not being there, raises InsufficientDataError and returns
\* no snapshot.
C29_ShortSeries ==
    (klines # NoKlines /\ indicators.status # "none"
        /\ BarsOf(klines.fetches) < MinBars)
        => indicators.status = "InsufficientDataError"

\* C30: the snapshot of a series of at least 50 bars of one close has an rsi
\* of 100 that is overbought, an ma20 equal to the ma50, and the trend down.
C30_ConstantClose ==
    (indicators.status = "returned" /\ klines.shape = "constant")
        => /\ ~rsi_data.nan
           /\ rsi_data.rsi = 100 * 100
           /\ rsi_data.overbought
           /\ indicators.ma.ma20 = indicators.ma.ma50
           /\ indicators.trend = "down"

\* C39: in every snapshot get_indicators computes, the bullish and the bearish
\* condition of the momentum do not hold together, so that testing the bearish
\* condition first would give the same momentum.
C39_ExclusiveConditions ==
    indicators.status = "returned" =>
        /\ ~(BullishCondition /\ BearishCondition)
        /\ indicators.momentum = determine_momentum_bearish_first(rsi_data, macd_data)

\* A snapshot of an overbought series whose histogram fell below zero without
\* a crossover: bearish by the rsi alone.
C39_Witness ==
    /\ indicators.status = "returned"
    /\ rsi_data.overbought
    /\ macd_data.macd_histogram < 0
    /\ ~macd_data.bearish_crossover
    /\ BearishCondition
    /\ indicators.momentum = "bearish"

\* ------------------------------------------- claims: RiskManager, lockout

\* A record_trade_result whose profit_loss is not negative has just run.
WinRecorded ==
    /\ call'.op = "record_trade_result"
    /\ recordedToday'.count = recordedToday.count + 1
    /\ consecutive_losses' = 0

\* C35: once the streak has reached max_consecutive_losses it stays there
\* through checks, summaries, further losses and changes of the day, until a
\* result that is not a loss is recorded, which brings it to 0; a check made
\* with the streak at the limit is rejected with CRITICAL for the streak, and
\* a check made with the streak below the limit is not rejected for it.
C35_StreakLockout ==
    [][/\ StreakHit => (StreakHit' \/ WinRecorded)
       /\ (Checked' /\ StreakHit') =>
            /\ ~call'.result.can_trade
            /\ call'.result.risk_level = "CRITICAL"
            /\ call'.result.reason = "Consecutive losses limit reached"
       /\ (Checked' /\ ~StreakHit') =>
            call'.result.reason # "Consecutive losses limit reached"]_vars

\* The first check of a later day, made with the streak still at the limit.
C35_Witness ==
    /\ Checked
    /\ call.rollover
    /\ today > 1
    /\ recordedToday.count = 0
    /\ StreakHit
    /\ ~call.result.can_trade
    /\ call.result.reason = "Consecutive losses limit reached"

\* The risk level of the three counters alone.
CounterLevel ==
    IF MaxRatioAtLeast(8) THEN "HIGH" ELSE IF MaxRatioAtLeast(5) THEN "MEDIUM" ELSE "LOW"

\* C38: a check given empty account assets, or assets whose balance or margin
\* cannot be read as a number, is allowed exactly when the three counter
\* checks pass; its result never is a result of the margin check, and when
\* allowed it is 'Trade allowed' with the risk level of the counters.
C38_MarginFailsOpen ==
    (Checked /\ call.assets \in {"empty", "bad"}) =>
        /\ call.result.can_trade <=> (~StreakHit /\ ~LossHit /\ ~TradesHit)
        /\ call.result.details = "counters"
        /\ call.result.reason \notin
               {"Margin ratio too low", "Margin ratio OK", "Margin check skipped"}
        /\ call.result.can_trade =>
               /\ call.result.reason = "Trade allowed"
               /\ call.result.risk_level = CounterLevel

\* A check given unreadable assets was allowed at LOW, which is not the level
\* of the skipped margin check.
C38_Witness ==
    /\ Checked
    /\ call.assets = "bad"
    /\ call.result.can_trade
    /\ call.result.reason = "Trade allowed"
    /\ call.result.risk_level = "LOW"

\* ------------------------------------- claims: RuleEngine and TradeExecutor

\* What execute_signal_for_symbol does with the decision of the rule engine,
\* on an executor with the default min_confidence.
GatedDecision ==
    execute_signal_for_symbol(
        "USD_JPY",
        [kind |-> "signal", signal |-> decision.signal,
         confidence |-> decision.confidence],
        NoQuery, NoQuery, Unused).result

\* C37: a buy or a sell of the rule engine has a winning score of at least 4
\* and a confidence of at least 0.9, and a hold has the confidence 0.5; with
\* min_confidence 0.7 the executor does not block the buy or the sell for its
\* confidence, and reports every hold as HOLD with 'Confidence too low'.
C37_GateAndDecision ==
    (decision.made /\ min_confidence = 70) =>
        /\ decision.signal = "buy" =>
               /\ decision.buy_score >= 4
               /\ decision.confidence >= 90
               /\ GatedDecision.action = "BUY"
        /\ decision.signal = "sell" =>
               /\ decision.sell_score >= 4
               /\ decision.confidence >= 90
               /\ GatedDecision.action = "SELL"
        /\ decision.signal \in {"buy", "sell"} =>
               GatedDecision.reason # "Confidence too low"
        /\ decision.signal = "hold" =>
               /\ decision.confidence = 50
               /\ GatedDecision.action = "HOLD"
               /\ GatedDecision.reason = "Confidence too low"

\* A hold decided on news fetched for the symbol, reported as blocked.
C37_Witness ==
    /\ decision.made
    /\ min_confidence = 70
    /\ fetched.state = "returned"
    /\ decision.signal = "hold"
    /\ decision.confidence = 50
    /\ GatedDecision.action = "HOLD"
    /\ GatedDecision.reason = "Confidence too low"

Inverse(side) == IF side = "BUY" THEN "SELL" ELSE "BUY"

OneRoot ==
    \A k \in 1..Len(composite.orders) :
        composite.orders[k].rootOrderId = composite.orders[1].rootOrderId

\* C31: for either entry side, a dry-run place_ifdoco_order returns three
\* orders, the entry, the take-profit (LIMIT) and the stop-loss (STOP) in this
\* order, and a dry-run place_ifd_order two, the entry and the exit; the
\* orders of one call have one rootOrderId, and every exit has the side
\* opposite to the entry's.
C31_CompositeDryRun ==
    composite.returned =>
        LET c == composite.call
            o == composite.orders
        IN  /\ OneRoot
            /\ o[1].side = c.first_side
            /\ o[1].settleType = "OPEN"
            /\ \A k \in 2..Len(o) :
                   o[k].side = Inverse(c.first_side) /\ o[k].settleType = "CLOSE"
            /\ c.method = "place_ifdoco_order" =>
                   /\ Len(o) = 3
                   /\ o[2].executionType = "LIMIT"
                   /\ o[2].price = c.second_limit_price
                   /\ o[3].executionType = "STOP"
                   /\ o[3].price = c.second_stop_price
            /\ c.method = "place_ifd_order" => Len(o) = 2

\* A SELL entry with its two BUY exits, the root identifier differing from
\* the entry's own.
C31_Witness ==
    /\ composite.returned
    /\ composite.call.method = "place_ifdoco_order"
    /\ composite.call.first_side = "SELL"
    /\ Len(composite.orders) = 3
    /\ composite.orders[1].orderId # composite.orders[1].rootOrderId
    /\ composite.orders[2].side = "BUY"
    /\ composite.orders[3].side = "BUY"
    /\ composite.orders[3].rootOrderId = composite.orders[1].rootOrderId

\* C32: the HTTP request of an attempt is sent at least the interval of its
\* class after the request of the attempt of that class before it, 6 ticks
\* (1 s) for POST and 1 tick (1/6 s) for GET, whether the attempt is a first
\* one or a retry; the attempt waits exactly as long as that takes, whatever
\* the attempts of the other class, so that a GET does not delay a POST nor a
\* POST a GET.
C32_RateLimits ==
    limiter.last.method # "" =>
        LET a == limiter.last
            due == IF a.earlier = 0 THEN 0 ELSE a.earlier + Interval(a.method)
        IN  /\ a.earlier # 0 => a.sent - a.earlier >= Interval(a.method)
            /\ a.sent = IF a.called >= due THEN a.called ELSE due

\* A POST sent without waiting in the tick in which a GET was sent, a second
\* after the POST before it.
C32_Witness ==
    /\ limiter.last.method = "POST"
    /\ limiter.previous.method = "GET"
    /\ limiter.last.sent = limiter.previous.sent
    /\ limiter.last.sent = limiter.last.called
    /\ limiter.last.earlier # 0
    /\ limiter.last.sent - limiter.last.earlier = request_interval_post

\* ------------------------------------------------- claims: NewsAnalyzer

\* The item has every required field, and its sentiment and impacts as given
\* are within -2..2 and 1..5.
WithinRanges(news_item) ==
    /\ news_item.shape = "dict"
    /\ -20 <= news_item.sentiment /\ news_item.sentiment <= 20
    /\ 10 <= news_item.usd_jpy /\ news_item.usd_jpy <= 50
    /\ 10 <= news_item.eur_jpy /\ news_item.eur_jpy <= 50

ValidPlaces == {k \in 1..Len(analysis.items) : WithinRanges(analysis.items[k])}

\* C33: analyze_news returns exactly the items that have every required field
\* and a sentiment within -2..2 and impacts within 1..5, in the order of the
\* response, and fails with ValidationError when there is no such item.
C33_ValidItemsOnly ==
    analysis.outcome \notin {"none", "pending"} =>
        IF ValidPlaces = {}
        THEN analysis.outcome = "ValidationError"
        ELSE /\ analysis.outcome = "returned"
             /\ {analysis.results[k].item : k \in 1..Len(analysis.results)} = ValidPlaces
             /\ Len(analysis.results) = Cardinality(ValidPlaces)
             /\ \A j, k \in 1..Len(analysis.results) :
                    j < k => analysis.results[j].item < analysis.results[k].item

\* ------------------------------------------------ claims: NewsCollector

\* What is_duplicate returned is whether the id or the url was recorded, and
\* a False recorded both.
DuplicateAnswer ==
    collector.op = "is_duplicate" =>
        /\ collector.result =
              (collector.news_id \in collector.ids \/ collector.url \in collector.urls)
        /\ ~collector.result =>
              /\ collector.seen_ids = collector.ids \cup {collector.news_id}
              /\ collector.seen_urls = collector.urls \cup {collector.url}

\* C34: is_duplicate returns False exactly when neither the id nor the url is
\* recorded, and then records both; what was accepted stays recorded until
\* reset_seen, so a later call with its id or its url returns True; the
\* articles returned between two resets differ pairwise in url and in
\* news_id and none is without url; reset_seen leaves both sets empty.
C34_Deduplication ==
    /\ DuplicateAnswer
    /\ \A a \in collector.accepted :
          a.news_id \in collector.seen_ids /\ a.url \in collector.seen_urls
    /\ \A j, k \in 1..Len(collector.returned) :
          j # k => /\ collector.returned[j].url # collector.returned[k].url
                   /\ collector.returned[j].news_id # collector.returned[k].news_id
    /\ \A k \in 1..Len(collector.returned) : collector.returned[k].url # ""
    /\ collector.op = "reset_seen" =>
          collector.seen_ids = {} /\ collector.seen_urls = {}

\* is_duplicate returned True for a new url because of a recorded id, after
\* an article was returned.
C34_Witness ==
    /\ collector.op = "is_duplicate"
    /\ collector.result
    /\ collector.url \notin collector.urls
    /\ Len(collector.returned) = 1

\* After a reset an article returned before it is accepted again.
C34_WitnessReset ==
    /\ collector.op = "is_duplicate"
    /\ ~collector.result
    /\ collector.ids = {}
    /\ collector.seen_ids # {}

\* --------------------------------- claims: TradeExecutor, closing positions

\* The places in the book of the positions of the symbol asked for whose side
\* passes the filter.
MatchingPlaces ==
    {p \in 1..Len(closer.book) :
        /\ closer.book[p].symbol = closer.symbol
        /\ closer.side = "" \/ closer.book[p].side = closer.side}

============================================================================
